---- MODULE Spec2Model ----
(***************************************************************************)
(* Grading orchestration of the supergrader backend:                       *)
(*   backend/app/services/grading.py      GradingService                   *)
(*   backend/app/api/routes/grading.py    grade_submission/event_generator *)
(*   backend/app/services/llm/service.py  LLMService                       *)
(*   backend/app/services/persistence/memory_repository.py                 *)
(*                                                                         *)
(* Spec      one grading request, from the job record's creation to the    *)
(*           end of its event stream.                                      *)
(* SpecVote  _majority_vote applied to bounded lists of verdicts.          *)
(*                                                                         *)
(* Floats are modelled as exact fractions [num, den].                      *)
(***************************************************************************)
EXTENDS Integers, Sequences, FiniteSets, TLC

(* ------------------------------ bounds -------------------------------- *)
MaxItems == 3
MaxBatchSize == 2
MaxParallel == 2
MaxVerdicts == 5
MaxRequestItems == 2
MaxServiceCalls == 3

(* ------------------------- configuration ------------------------------ *)
\* max_requests_per_minute values: 3 leaves no request budget for a batch
RequestCaps == {3, 12, 48}
\* max_tokens_per_minute values
TokenCaps == {6000, 96000}

Configurations ==
    [batch_size : 1..MaxBatchSize,
     parallel_llm_calls : 1..MaxParallel,
     max_requests_per_minute : RequestCaps,
     max_tokens_per_minute : TokenCaps]

\* "Conservative: 6 batches per minute max"
BatchesPerMinute == 6
\* "~2000 tokens per request"
TokensPerRequest == 2000

(* ---------------------------- data model ------------------------------ *)
RubricTypes == {"CHECKBOX", "RADIO"}
RubricDecisions == {"check", "uncheck"}
OptionKeys == {"A", "B", "C"}
\* the options of the RADIO items of a request, in declaration order
DeclaredOptions == <<"B", "A">>
NoOptions == <<>>

RubricItem(i, t) ==
    [id |-> i, type |-> t,
     options |-> IF t = "RADIO" THEN DeclaredOptions ELSE NoOptions]

\* the rubric_items lists that pass validate_submission_request:
\* non-empty, ids unique, every RADIO item with at least 2 options
RubricItemLists ==
    UNION {{[i \in 1..n |-> RubricItem(i, ts[i])] : ts \in [1..n -> RubricTypes]}
           : n \in 1..MaxItems}

Evidence(f, l) == [file |-> f, lines |-> l]

CheckboxVerdict(d, ev, cm, cf) ==
    [decision |-> d, evidence |-> ev, comment |-> cm, confidence |-> cf]

RadioVerdict(o, ev, cm, cf) ==
    [selected_option |-> o, evidence |-> ev, comment |-> cm, confidence |-> cf]

Frac(n, d) == [num |-> n, den |-> d]
FracEq(a, b) == a.num * b.den = b.num * a.den

GradingDecision(id, t, v, c, r) ==
    [rubric_item_id |-> id, type |-> t, verdict |-> v,
     confidence |-> c, reasoning |-> r]

(* ------------------------ _optimize_batch_size ------------------------ *)
Min(a, b) == IF a <= b THEN a ELSE b

\* mutation of _optimize_batch_size: without the override for few items
_optimize_batch_size_capped(s, total_items) ==
    LET max_requests_per_batch == s.max_requests_per_minute \div BatchesPerMinute
        max_tokens_per_batch == s.max_tokens_per_minute \div BatchesPerMinute
        max_batch_by_requests == max_requests_per_batch \div s.parallel_llm_calls
        max_batch_by_tokens ==
            max_tokens_per_batch \div (s.parallel_llm_calls * TokensPerRequest)
        api_limited_batch_size == Min(max_batch_by_requests, max_batch_by_tokens)
    IN  Min(Min(s.batch_size, api_limited_batch_size), total_items)

\* grading.py 40-66
_optimize_batch_size(s, total_items) ==
    LET max_requests_per_batch == s.max_requests_per_minute \div BatchesPerMinute
        max_tokens_per_batch == s.max_tokens_per_minute \div BatchesPerMinute
        max_batch_by_requests == max_requests_per_batch \div s.parallel_llm_calls
        max_batch_by_tokens ==
            max_tokens_per_batch \div (s.parallel_llm_calls * TokensPerRequest)
        api_limited_batch_size == Min(max_batch_by_requests, max_batch_by_tokens)
        optimal_batch_size ==
            Min(Min(s.batch_size, api_limited_batch_size), total_items)
    IN  IF total_items <= s.batch_size THEN total_items ELSE optimal_batch_size

_estimate_batch_load(s, b) ==
    [requests |-> b * s.parallel_llm_calls,
     tokens |-> b * s.parallel_llm_calls * TokensPerRequest,
     batch_size |-> b]

(* ----------------------- _create_fallback_decision -------------------- *)
ManualReviewComment == "Unable to evaluate automatically - please review manually"

\* mutation of _create_fallback_decision: the last option, not the first
_create_fallback_decision_last(item) ==
    LET verdict ==
          IF item.type = "CHECKBOX"
          THEN CheckboxVerdict("check", Evidence("unknown", "0-0"),
                               ManualReviewComment, 0)
          ELSE LET first_option ==
                     IF item.options # <<>> THEN item.options[Len(item.options)]
                     ELSE "Q"
               IN  RadioVerdict(first_option, Evidence("unknown", "0-0"),
                                ManualReviewComment, 0)
    IN  GradingDecision(item.id, item.type, verdict, Frac(0, 1),
                        "All LLM evaluation attempts failed")

_create_fallback_decision(item) ==
    LET verdict ==
          IF item.type = "CHECKBOX"
          THEN CheckboxVerdict("check", Evidence("unknown", "0-0"),
                               ManualReviewComment, 0)
          ELSE LET first_option ==
                     IF item.options # <<>> THEN item.options[1] ELSE "Q"
               IN  RadioVerdict(first_option, Evidence("unknown", "0-0"),
                                ManualReviewComment, 0)
    IN  GradingDecision(item.id, item.type, verdict, Frac(0, 1),
                        "All LLM evaluation attempts failed")

(* ----------------------------- _majority_vote ------------------------- *)
\* collections.Counter(seq): <<element, count>> pairs in first-seen order
Counter(seq) ==
    LET firsts == {i \in 1..Len(seq) : \A j \in 1..(i - 1) : seq[j] # seq[i]}
        nth(k) == CHOOSE i \in firsts : Cardinality({j \in firsts : j <= i}) = k
    IN  [k \in 1..Cardinality(firsts) |->
           <<seq[nth(k)],
             Cardinality({j \in 1..Len(seq) : seq[j] = seq[nth(k)]})>>]

\* mutation of most_common: entries of equal count in last-seen order
RECURSIVE most_common_lastseen(_, _)
most_common_lastseen(counts, n) ==
    IF n = 0 \/ counts = <<>> THEN <<>>
    ELSE LET top == CHOOSE i \in 1..Len(counts) :
                      /\ \A j \in 1..Len(counts) : counts[j][2] <= counts[i][2]
                      /\ \A j \in (i + 1)..Len(counts) : counts[j][2] < counts[i][2]
             rest == [k \in 1..(Len(counts) - 1) |->
                        IF k < top THEN counts[k] ELSE counts[k + 1]]
         IN  <<counts[top]>> \o most_common_lastseen(rest, n - 1)

\* Counter.most_common(n): the n entries of highest count, highest first,
\* entries of equal count in first-seen order
RECURSIVE most_common(_, _)
most_common(counts, n) ==
    IF n = 0 \/ counts = <<>> THEN <<>>
    ELSE LET top == CHOOSE i \in 1..Len(counts) :
                      /\ \A j \in 1..Len(counts) : counts[j][2] <= counts[i][2]
                      /\ \A j \in 1..(i - 1) : counts[j][2] < counts[i][2]
             rest == [k \in 1..(Len(counts) - 1) |->
                        IF k < top THEN counts[k] ELSE counts[k + 1]]
         IN  <<counts[top]>> \o most_common(rest, n - 1)

CountOf(counts, x) ==
    LET at == {i \in 1..Len(counts) : counts[i][1] = x}
    IN  IF at = {} THEN 0 ELSE counts[CHOOSE i \in at : TRUE][2]

\* mutation of MaxByConfidence: the last element of highest key
MaxByConfidence_last(seq) ==
    seq[CHOOSE i \in 1..Len(seq) :
          /\ \A j \in 1..Len(seq) : seq[j].confidence <= seq[i].confidence
          /\ \A j \in (i + 1)..Len(seq) : seq[j].confidence < seq[i].confidence]

\* max(seq, key=lambda v: v.confidence): the first element of highest key
MaxByConfidence(seq) ==
    seq[CHOOSE i \in 1..Len(seq) :
          /\ \A j \in 1..Len(seq) : seq[j].confidence <= seq[i].confidence
          /\ \A j \in 1..(i - 1) : seq[j].confidence < seq[i].confidence]

\* mutation of AgreementConfidence: the agreement ratio is left out
AgreementConfidence_noratio(majority_count, n, best_verdict) ==
    Frac(best_verdict.confidence, 100)

\* lines 252 and 277: (majority_count / len(verdicts)) * (confidence / 100)
AgreementConfidence(majority_count, n, best_verdict) ==
    Frac(majority_count * best_verdict.confidence, n * 100)

\* mutation of _majority_vote: for a RADIO winner the representative is the
\* first verdict that selected it
_majority_vote_firstmatch(verdicts, rubric_type) ==
    IF rubric_type = "CHECKBOX"
    THEN LET decisions == [i \in 1..Len(verdicts) |-> verdicts[i].decision]
             decision_counts == Counter(decisions)
             majority_decision == most_common(decision_counts, 1)[1][1]
             majority_count == CountOf(decision_counts, majority_decision)
             Holds(v) == v.decision = majority_decision
             matching_verdicts == SelectSeq(verdicts, Holds)
             best_verdict == MaxByConfidence(matching_verdicts)
         IN  [verdict |-> best_verdict,
              confidence |-> AgreementConfidence(majority_count, Len(verdicts),
                                                 best_verdict)]
    ELSE LET options == [i \in 1..Len(verdicts) |-> verdicts[i].selected_option]
             option_counts == Counter(options)
             top_options == most_common(option_counts, 2)
         IN  IF Len(top_options) > 1 /\ top_options[1][2] = top_options[2][2]
             THEN LET tied_option == top_options[1][1]
                      Sel(v) == v.selected_option = tied_option
                      matching_verdicts == SelectSeq(verdicts, Sel)
                  IN  [verdict |-> matching_verdicts[1],
                       confidence |-> Frac(1, 2)]
             ELSE LET majority_option == top_options[1][1]
                      majority_count == top_options[1][2]
                      Sel(v) == v.selected_option = majority_option
                      matching_verdicts == SelectSeq(verdicts, Sel)
                      best_verdict == matching_verdicts[1]
                  IN  [verdict |-> best_verdict,
                       confidence |-> AgreementConfidence(majority_count,
                                                          Len(verdicts),
                                                          best_verdict)]

\* grading.py 231-279
_majority_vote(verdicts, rubric_type) ==
    IF rubric_type = "CHECKBOX"
    THEN LET decisions == [i \in 1..Len(verdicts) |-> verdicts[i].decision]
             decision_counts == Counter(decisions)
             majority_decision == most_common(decision_counts, 1)[1][1]
             majority_count == CountOf(decision_counts, majority_decision)
             Holds(v) == v.decision = majority_decision
             matching_verdicts == SelectSeq(verdicts, Holds)
             best_verdict == MaxByConfidence(matching_verdicts)
         IN  [verdict |-> best_verdict,
              confidence |-> AgreementConfidence(majority_count, Len(verdicts),
                                                 best_verdict)]
    ELSE LET options == [i \in 1..Len(verdicts) |-> verdicts[i].selected_option]
             option_counts == Counter(options)
             top_options == most_common(option_counts, 2)
         IN  IF Len(top_options) > 1 /\ top_options[1][2] = top_options[2][2]
             THEN LET tied_option == top_options[1][1]
                      Sel(v) == v.selected_option = tied_option
                      matching_verdicts == SelectSeq(verdicts, Sel)
                  IN  [verdict |-> matching_verdicts[1],
                       confidence |-> Frac(1, 2)]
             ELSE LET majority_option == top_options[1][1]
                      majority_count == top_options[1][2]
                      Sel(v) == v.selected_option = majority_option
                      matching_verdicts == SelectSeq(verdicts, Sel)
                      best_verdict == MaxByConfidence(matching_verdicts)
                  IN  [verdict |-> best_verdict,
                       confidence |-> AgreementConfidence(majority_count,
                                                          Len(verdicts),
                                                          best_verdict)]

(* ------------------------------ LLM call ------------------------------ *)
\* keyword parameters of LLMService.evaluate_rubric_item (besides self)
EvaluateParams ==
    {"rubric_type", "rubric_description", "rubric_points", "rubric_options",
     "source_files", "language", "section_context"}

\* keywords GradingService._evaluate_rubric_item passes to each call
CallKeywords ==
    {"rubric_type", "rubric_description", "rubric_points", "rubric_options",
     "source_files", "section_context", "caveats"}

\* the keywords of that call which the signature declares
DeclaredKeywords == CallKeywords \cap EvaluateParams

None == [none |-> TRUE]

Raised(name) == [exception |-> name]
IsException(r) == "exception" \in DOMAIN r

\* httpx.HTTPStatusError whose response has status code s
HTTPStatusError(s) == [exception |-> "HTTPStatusError", status_code |-> s]

\* settings.llm_max_retries
llm_max_retries == 3

\* exceptions of httpx, and of the anthropic / openai clients, by class name
NetworkErrors == {"TimeoutException", "ConnectError", "ReadError"}
ApiErrors ==
    {"RateLimitError", "InternalServerError", "APITimeoutError",
     "APIConnectionError", "AuthenticationError"}
StatusCodes == {400, 429, 500, 501, 502, 503, 504}

\* what provider.call_llm can raise; ValueError is the empty response
ProviderErrors ==
    {Raised(t) : t \in NetworkErrors \cup ApiErrors \cup {"ValueError"}}
    \cup {HTTPStatusError(s) : s \in StatusCodes}

\* mutation of is_retryable_error: every exception is retried
is_retryable_error_any(exception) == TRUE

is_retryable_error(exception) ==
    IF exception.exception \in {"TimeoutException", "ConnectError", "ReadError"}
    THEN TRUE
    ELSE IF /\ exception.exception = "HTTPStatusError"
            /\ exception.status_code \in {429, 500, 502, 503, 504}
    THEN TRUE
    ELSE IF exception.exception = "RateLimitError" THEN TRUE
    ELSE IF exception.exception \in {"InternalServerError", "APITimeoutError"}
    THEN TRUE
    ELSE IF exception.exception = "APIConnectionError" THEN TRUE
    ELSE FALSE

\* mutation of retry: one attempt more than stop_after_attempt allows
retry_extra(exception, attempt_number) ==
    is_retryable_error(exception) /\ attempt_number < llm_max_retries + 1

\* the retry decorator after attempt attempt_number raised exception:
\* retry_if_exception(is_retryable_error), stop_after_attempt(llm_max_retries)
retry(exception, attempt_number) ==
    is_retryable_error(exception) /\ attempt_number < llm_max_retries

Max(a, b) == IF a >= b THEN a ELSE b

\* tenacity's wait_exponential(multiplier=1, min=4, max=30) after attempt
\* attempt_number: multiplier * 2 ** (attempt_number - 1), kept in [min, max]
wait_exponential(attempt_number) ==
    LET result == 1 * 2 ^ (attempt_number - 1)
    IN  Max(Max(0, 4), Min(result, 30))

\* wait_fixed(2)
wait_fixed(attempt_number) == 2

\* the wait of the retry decorator after attempt attempt_number:
\* wait_combine gives the sum of the waits of its strategies
wait(attempt_number) ==
    wait_exponential(attempt_number) + wait_fixed(attempt_number)

\* confidences a response reports; CheckboxVerdict / RadioVerdict accept 0..100
ReportedConfidences == {0, 100, 101}

\* a response text: JSON content, or text that json.loads rejects
Json(data) == [kind |-> "json", data |-> data]
NotJson == [kind |-> "text"]

ResponseTexts(item) ==
    {NotJson} \cup
    (IF item.type = "CHECKBOX"
     THEN {Json([decision |-> d, evidence |-> Evidence("main.cpp", "1-2"),
                 comment |-> "ok", confidence |-> c])
           : d \in RubricDecisions, c \in ReportedConfidences}
     ELSE {Json([selected_option |-> o, evidence |-> Evidence("main.cpp", "1-2"),
                 comment |-> "ok", confidence |-> c])
           : o \in OptionKeys, c \in ReportedConfidences})

\* what one provider.call_llm does: raise, or return a response text
ProviderResponses(item) ==
    {[kind |-> "raise", error |-> e] : e \in ProviderErrors}
    \cup ResponseTexts(item)

\* mutation of _parse_response: the confidence is not validated
_parse_response_unchecked(response, rubric_type) ==
    IF response.kind # "json" THEN Raised("ValueError")
    ELSE LET data == response.data
         IN  IF rubric_type = "CHECKBOX"
             THEN IF /\ "decision" \in DOMAIN data
                     /\ data.decision \in RubricDecisions
                  THEN CheckboxVerdict(data.decision, data.evidence,
                                       data.comment, data.confidence)
                  ELSE Raised("ValidationError")
             ELSE IF "selected_option" \in DOMAIN data
                  THEN RadioVerdict(data.selected_option, data.evidence,
                                    data.comment, data.confidence)
                  ELSE Raised("ValidationError")

\* json.loads, then CheckboxVerdict(**data) or RadioVerdict(**data) with the
\* field validation of the models
_parse_response(response, rubric_type) ==
    IF response.kind # "json" THEN Raised("ValueError")
    ELSE LET data == response.data
         IN  IF rubric_type = "CHECKBOX"
             THEN IF /\ "decision" \in DOMAIN data
                     /\ data.decision \in RubricDecisions
                     /\ data.confidence \in 0..100
                  THEN CheckboxVerdict(data.decision, data.evidence,
                                       data.comment, data.confidence)
                  ELSE Raised("ValidationError")
             ELSE IF /\ "selected_option" \in DOMAIN data
                     /\ data.confidence \in 0..100
                  THEN RadioVerdict(data.selected_option, data.evidence,
                                    data.comment, data.confidence)
                  ELSE Raised("ValidationError")

\* one attempt of self.llm_service.evaluate_rubric_item(**keywords), lines
\* 100-135: the verdict returned or the exception raised.  A keyword the
\* signature does not declare raises TypeError before the provider is called
evaluate_rubric_item(keywords, rubric_type, response) ==
    IF ~(keywords \subseteq EvaluateParams) THEN Raised("TypeError")
    ELSE IF response.kind = "raise" THEN response.error
    ELSE _parse_response(response, rubric_type)

(* ------------------------ _evaluate_rubric_item ----------------------- *)
_generate_reasoning(valid_verdicts) == "Voting results"

\* mutation of _evaluate_rubric_item: no decision is returned when every
\* call failed
_evaluate_rubric_item_noreturn(item, results) ==
    LET NotExc(r) == ~IsException(r)
        valid_verdicts == SelectSeq(results, NotExc)
    IN  IF valid_verdicts = <<>>
        THEN None
        ELSE LET mv == _majority_vote(valid_verdicts, item.type)
             IN  GradingDecision(item.id, item.type, mv.verdict, mv.confidence,
                                 _generate_reasoning(valid_verdicts))

\* lines 199-229: the decision from the gathered results of the calls
_evaluate_rubric_item(item, results) ==
    LET NotExc(r) == ~IsException(r)
        valid_verdicts == SelectSeq(results, NotExc)
    IN  IF valid_verdicts = <<>>
        THEN _create_fallback_decision(item)
        ELSE LET mv == _majority_vote(valid_verdicts, item.type)
             IN  GradingDecision(item.id, item.type, mv.verdict, mv.confidence,
                                 _generate_reasoning(valid_verdicts))

(* ---------------------------- job store ------------------------------- *)
JobStatus(id, st, total) ==
    [job_id |-> id, status |-> st, progress |-> Frac(0, 1),
     completed_items |-> 0, total_items |-> total, error |-> "None"]

JobId == "course_assignment_submission"

\* MemoryJobRepository.get_job
get_job(jobs, id) == IF id \in DOMAIN jobs THEN jobs[id] ELSE None

\* MemoryJobRepository.create_job / update_job on a present id
put_job(jobs, id, rec) ==
    [k \in DOMAIN jobs \cup {id} |-> IF k = id THEN rec ELSE jobs[k]]

(* ----------------------------- the state ------------------------------ *)
VARIABLES
    settings,            \* app.core.config.settings
    rubric_items,        \* request.rubric_items
    pc,                  \* position of the request / event_generator
    _jobs,               \* MemoryJobRepository._jobs
    optimal_batch_size,  \* grade_submission local
    batch_start,         \* grade_submission loop variable
    batches,             \* the batches built so far, line 104
    tasks,               \* per rubric item: its LLM calls and its result
    finish_order,        \* items of the running batch, in completion order
    batch_results,       \* result of asyncio.gather for the running batch
    emit_pos,            \* index i of the emission loop, lines 127-142
    completed_items,     \* grade_submission local
    events,              \* SSE events delivered to the consumer
    vote_verdicts,       \* SpecVote: verdicts argument of _majority_vote
    vote_type,           \* SpecVote: rubric_type argument
    vote_result,         \* SpecVote: value returned
    eval_item,           \* SpecEval: the rubric item under evaluation
    eval_keywords,       \* SpecEval: keywords of each evaluate_rubric_item call
    eval_calls,          \* SpecEval: per call, attempts made and result
    eval_decision,       \* SpecEval: the item's GradingDecision
    call_type,           \* SpecCall: rubric_type of the call
    call_keywords,       \* SpecCall: keywords of the call
    call_log,            \* SpecCall: what each attempt made so far gave
    call_waits,          \* SpecCall: seconds slept before each retry
    call_result,         \* SpecCall: what the call gave its caller
    requests,            \* SpecStore: the grading requests for one submission
    repository,          \* SpecStore: the kind of job_repository
    store_up,            \* SpecStore: the Redis server can be reached
    route_request,       \* SpecValidate: the SubmissionRequest posted
    route_response,      \* SpecValidate: what the route answered
    _created_times,      \* SpecRepo: MemoryJobRepository._created_times
    now,                 \* SpecRepo: position of the clock in Times
    born,                \* SpecRepo: when each stored record came to exist
    update_call,         \* SpecRepo: the update_job call in progress
    cleanup_call,        \* SpecRepo: the cleanup_old_jobs call
    llm_settings,        \* SpecService: settings.llm_provider and its API key
    _provider,           \* SpecService: LLMService._provider
    _initialized,        \* SpecService: LLMService._initialized
    _client,             \* SpecService: the provider's _client
    initialize_calls,    \* SpecService: times the provider's initialize() ran
    service_calls        \* SpecService: the evaluate_rubric_item calls

pipeline_vars ==
    <<settings, rubric_items, pc, _jobs, optimal_batch_size, batch_start,
      batches, tasks, finish_order, batch_results, emit_pos, completed_items, events>>
vote_vars == <<vote_verdicts, vote_type, vote_result>>
eval_vars == <<eval_item, eval_keywords, eval_calls, eval_decision>>
call_vars == <<call_type, call_keywords, call_log, call_waits, call_result>>
store_vars == <<requests, repository, store_up>>
route_vars == <<route_request, route_response>>
repo_vars == <<_created_times, now, born, update_call, cleanup_call>>
service_vars ==
    <<llm_settings, _provider, _initialized, _client, initialize_calls,
      service_calls>>
vars ==
    <<pipeline_vars, vote_vars, eval_vars, call_vars, store_vars, route_vars,
      repo_vars, service_vars>>

NoResult == [pending |-> TRUE]
NotStarted == [calls |-> <<>>, result |-> NoResult, state |-> "unstarted"]

total_items == Len(rubric_items)

PipelineIdle ==
    /\ pc = "idle"
    /\ settings = [batch_size |-> 1, parallel_llm_calls |-> 1,
                   max_requests_per_minute |-> 48,
                   max_tokens_per_minute |-> 96000]
    /\ rubric_items = <<>>
    /\ _jobs = <<>>
    /\ optimal_batch_size = 0
    /\ batch_start = 0
    /\ batches = <<>>
    /\ tasks = <<>>
    /\ finish_order = <<>>
    /\ batch_results = <<>>
    /\ emit_pos = 0
    /\ completed_items = 0
    /\ events = <<>>

VoteIdle ==
    /\ vote_verdicts = <<>>
    /\ vote_type = "CHECKBOX"
    /\ vote_result = None

EvalIdle ==
    /\ eval_item = RubricItem(1, "CHECKBOX")
    /\ eval_keywords = {}
    /\ eval_calls = <<>>
    /\ eval_decision = None

CallIdle ==
    /\ call_type = "CHECKBOX"
    /\ call_keywords = {}
    /\ call_log = <<>>
    /\ call_waits = <<>>
    /\ call_result = NoResult

StoreIdle ==
    /\ requests = <<>>
    /\ repository = "memory"
    /\ store_up = TRUE

RouteIdle ==
    /\ route_request = None
    /\ route_response = NoResult

RepoIdle ==
    /\ _created_times = <<>>
    /\ now = 1
    /\ born = <<>>
    /\ update_call = None
    /\ cleanup_call = None

ServiceIdle ==
    /\ llm_settings = [llm_provider |-> "anthropic", api_key |-> "None"]
    /\ _provider = None
    /\ _initialized = FALSE
    /\ _client = None
    /\ initialize_calls = 0
    /\ service_calls = <<>>

Init ==
    /\ settings \in Configurations
    /\ rubric_items \in RubricItemLists
    /\ pc = "request"
    /\ _jobs = <<>>
    /\ optimal_batch_size = 0
    /\ batch_start = 0
    /\ batches = <<>>
    /\ tasks = [i \in 1..Len(rubric_items) |-> NotStarted]
    /\ finish_order = <<>>
    /\ batch_results = <<>>
    /\ emit_pos = 0
    /\ completed_items = 0
    /\ events = <<>>
    /\ VoteIdle
    /\ EvalIdle
    /\ CallIdle
    /\ StoreIdle
    /\ RouteIdle
    /\ RepoIdle
    /\ ServiceIdle

(* ------------------------- grade-submission route --------------------- *)
\* routes/grading.py 32-44, 88: validate, create the job record, return the
\* stream; event_generator has not run yet
grade_submission_route ==
    /\ pc = "request"
    /\ _jobs' = put_job(_jobs, JobId, JobStatus(JobId, "processing", total_items))
    /\ pc' = "start"
    /\ UNCHANGED <<settings, rubric_items, optimal_batch_size, batch_start,
                   batches, tasks, finish_order, batch_results, emit_pos,
                   completed_items, events>>

\* mutation of JobAfter: a partial result also counts the item in total_items
JobAfter_recount(jobs, result) ==
    LET current_job == get_job(jobs, JobId)
    IN  IF current_job = None THEN jobs
        ELSE IF result.type = "partial_result"
        THEN put_job(jobs, JobId,
                     [current_job EXCEPT
                        !.completed_items = current_job.completed_items + 1,
                        !.total_items = current_job.total_items + 1,
                        !.progress = result.progress])
        ELSE IF result.type = "job_complete"
        THEN put_job(jobs, JobId,
                     [current_job EXCEPT !.status = "completed",
                                         !.progress = Frac(1, 1)])
        ELSE jobs

\* event_generator lines 57-66: the job record after one pipeline result
JobAfter(jobs, result) ==
    LET current_job == get_job(jobs, JobId)
    IN  IF current_job = None THEN jobs
        ELSE IF result.type = "partial_result"
        THEN put_job(jobs, JobId,
                     [current_job EXCEPT
                        !.completed_items = current_job.completed_items + 1,
                        !.progress = result.progress])
        ELSE IF result.type = "job_complete"
        THEN put_job(jobs, JobId,
                     [current_job EXCEPT !.status = "completed",
                                         !.progress = Frac(1, 1)])
        ELSE jobs

\* event_generator lines 74-80: the job record after an exception e
JobFailed(jobs, e) ==
    LET current_job == get_job(jobs, JobId)
    IN  IF current_job = None THEN jobs
        ELSE put_job(jobs, JobId,
                     [current_job EXCEPT !.status = "failed", !.error = e])

\* event_generator lines 69-72: the SSE event of a pipeline result
SSE(result) ==
    IF result.type = "partial_result"
    THEN [event |-> "partial_result", rubric_item_id |-> result.rubric_item_id,
          decision |-> result.decision, progress |-> result.progress]
    ELSE [event |-> "job_complete", message |-> result.message,
          progress |-> result.progress]

ErrorEvent(e) == [event |-> "error", error |-> e]

(* --------------------------- grade_submission ------------------------- *)
\* seq[a:b] of Python, 0 <= a
Slice(seq, a, b) == SubSeq(seq, a + 1, Min(b, Len(seq)))

\* mutation of Batch: the slice ends one item early
Batch_short(items, start, size) ==
    LET batch_end == Min(start + size, Len(items)) - 1
    IN  Slice(items, start, IF batch_end < start THEN start + 1 ELSE batch_end)

\* lines 103-104: the batch that starts at batch_start
Batch(items, start, size) ==
    LET batch_end == Min(start + size, Len(items))
    IN  Slice(items, start, batch_end)

\* lines 81-99, the first step of the stream: preprocessing, rubric loading,
\* batch size; math.ceil(total_items / 0) raises ZeroDivisionError
Prepare ==
    /\ pc = "start"
    /\ _optimize_batch_size(settings, total_items) # 0
    /\ optimal_batch_size' = _optimize_batch_size(settings, total_items)
    /\ batch_start' = 0
    /\ pc' = "loop"
    /\ UNCHANGED <<settings, rubric_items, _jobs, batches, tasks, finish_order,
                   batch_results, emit_pos, completed_items, events>>

\* the ZeroDivisionError of line 94 reaches event_generator's except clause
PrepareFails ==
    /\ pc = "start"
    /\ _optimize_batch_size(settings, total_items) = 0
    /\ optimal_batch_size' = 0
    /\ _jobs' = JobFailed(_jobs, "division by zero")
    /\ events' = Append(events, ErrorEvent("division by zero"))
    /\ pc' = "done"
    /\ UNCHANGED <<settings, rubric_items, batch_start, batches, tasks,
                   finish_order, batch_results, emit_pos, completed_items>>

\* mutation of StartBatch: the loop runs detached from the stream and goes
\* on after the stream's task is cancelled
StartBatch_detached ==
    /\ pc \in {"loop", "cancelled"}
    /\ batch_start < total_items
    /\ LET batch == Batch(rubric_items, batch_start, optimal_batch_size)
           ids == {batch[k].id : k \in 1..Len(batch)}
       IN  /\ batches' = Append(batches, batch)
           /\ tasks' = [i \in DOMAIN tasks |->
                          IF i \in ids
                          THEN [calls |-> <<>>, result |-> NoResult,
                                state |-> "searching"]
                          ELSE tasks[i]]
    /\ finish_order' = <<>>
    /\ batch_results' = <<>>
    /\ pc' = "gather"
    /\ UNCHANGED <<settings, rubric_items, _jobs, optimal_batch_size,
                   batch_start, emit_pos, completed_items, events>>

\* lines 102-121: build the batch, start one _evaluate_rubric_item per item
StartBatch ==
    /\ pc = "loop"
    /\ batch_start < total_items
    /\ LET batch == Batch(rubric_items, batch_start, optimal_batch_size)
           ids == {batch[k].id : k \in 1..Len(batch)}
       IN  /\ batches' = Append(batches, batch)
           /\ tasks' = [i \in DOMAIN tasks |->
                          IF i \in ids
                          THEN [calls |-> <<>>, result |-> NoResult,
                                state |-> "searching"]
                          ELSE tasks[i]]
    /\ finish_order' = <<>>
    /\ batch_results' = <<>>
    /\ pc' = "gather"
    /\ UNCHANGED <<settings, rubric_items, _jobs, optimal_batch_size,
                   batch_start, emit_pos, completed_items, events>>

\* lines 168-194: caveat search returned; launch the parallel LLM calls
LaunchCalls(i) ==
    /\ pc = "gather"
    /\ tasks[i].state = "searching"
    /\ tasks' = [tasks EXCEPT ![i] =
                   [calls |-> [c \in 1..settings.parallel_llm_calls |-> NoResult],
                    result |-> NoResult, state |-> "running"]]
    /\ UNCHANGED <<settings, rubric_items, pc, _jobs, optimal_batch_size,
                   batch_start, batches, finish_order, batch_results, emit_pos,
                   completed_items, events>>

\* lines 176-180: the caveat search raises; the item's coroutine ends with
\* the exception before any LLM call
SearchCaveatsRaises(i) ==
    /\ pc = "gather"
    /\ tasks[i].state = "searching"
    /\ tasks' = [tasks EXCEPT ![i] =
                   [calls |-> <<>>, result |-> Raised("CaveatError"),
                    state |-> "finished"]]
    /\ finish_order' = Append(finish_order, i)
    /\ UNCHANGED <<settings, rubric_items, pc, _jobs, optimal_batch_size,
                   batch_start, batches, batch_results, emit_pos,
                   completed_items, events>>

\* one LLM call of item i ends with its last attempt; lines 197-229 run once
\* the last call has ended
LLMCallReturns(i, c) ==
    /\ pc = "gather"
    /\ tasks[i].state = "running"
    /\ tasks[i].calls[c] = NoResult
    /\ \E response \in ProviderResponses(rubric_items[i]) :
         LET calls == [tasks[i].calls EXCEPT
                         ![c] = evaluate_rubric_item(CallKeywords,
                                                     rubric_items[i].type,
                                                     response)]
             all_back == \A k \in DOMAIN calls : calls[k] # NoResult
         IN  /\ tasks' = [tasks EXCEPT ![i] =
                            IF all_back
                            THEN [calls |-> calls,
                                  result |-> _evaluate_rubric_item(rubric_items[i], calls),
                                  state |-> "finished"]
                            ELSE [calls |-> calls, result |-> NoResult,
                                  state |-> "running"]]
             /\ finish_order' = IF all_back THEN Append(finish_order, i)
                                ELSE finish_order
    /\ UNCHANGED <<settings, rubric_items, pc, _jobs, optimal_batch_size,
                   batch_start, batches, batch_results, emit_pos,
                   completed_items, events>>

\* mutation of gather: the results in completion order
gather_as_completed(batch, tsk, order) ==
    [k \in 1..Len(batch) |-> tsk[order[k]].result]

\* asyncio.gather(*tasks, return_exceptions=True): the results in the order
\* of the tasks, exceptions included as values
gather(batch, tsk, order) == [k \in 1..Len(batch) |-> tsk[batch[k].id].result]

\* lines 118-125: every evaluation of the batch has finished
GatherReturns ==
    /\ pc = "gather"
    /\ LET batch == batches[Len(batches)]
       IN  /\ \A k \in 1..Len(batch) : tasks[batch[k].id].state = "finished"
           /\ batch_results' = gather(batch, tasks, finish_order)
    /\ emit_pos' = 0
    /\ pc' = "emit"
    /\ UNCHANGED <<settings, rubric_items, _jobs, optimal_batch_size,
                   batch_start, batches, tasks, finish_order, completed_items,
                   events>>

\* lines 131-135
DecisionOf(rubric_item, result) ==
    IF IsException(result) THEN _create_fallback_decision(rubric_item)
    ELSE result

\* mutation of Progress: computed before the item is counted
Progress_before(completed, total) == Frac(completed - 1, total)

\* line 129, after the increment of line 128: completed_items / total_items
Progress(completed, total) == Frac(completed, total)

PartialResult(t, id, d, pr, m) ==
    [type |-> t, rubric_item_id |-> id, decision |-> d, progress |-> pr,
     message |-> m]

\* lines 127-142 and event_generator 57-72: one partial result is yielded,
\* the job record updated, the event delivered
EmitPartial ==
    /\ pc = "emit"
    /\ emit_pos < Len(batch_results)
    /\ LET batch == batches[Len(batches)]
           rubric_item == batch[emit_pos + 1]
           result == batch_results[emit_pos + 1]
           progress == Progress(completed_items + 1, total_items)
           partial == PartialResult("partial_result", rubric_item.id,
                                    DecisionOf(rubric_item, result), progress,
                                    "None")
       IN  /\ _jobs' = JobAfter(_jobs, partial)
           /\ events' = Append(events, SSE(partial))
    /\ completed_items' = completed_items + 1
    /\ emit_pos' = emit_pos + 1
    /\ UNCHANGED <<settings, rubric_items, pc, optimal_batch_size, batch_start,
                   batches, tasks, finish_order, batch_results>>

\* mutation of BatchEnd: the loop goes on once the first result is emitted
BatchEnd_early ==
    /\ pc = "emit"
    /\ emit_pos >= 1
    /\ batch_start' = batch_start + optimal_batch_size
    /\ pc' = "loop"
    /\ UNCHANGED <<settings, rubric_items, _jobs, optimal_batch_size, batches,
                   tasks, finish_order, batch_results, emit_pos,
                   completed_items, events>>

\* lines 144-148 and the next value of the range of line 102
BatchEnd ==
    /\ pc = "emit"
    /\ emit_pos = Len(batch_results)
    /\ batch_start' = batch_start + optimal_batch_size
    /\ pc' = "loop"
    /\ UNCHANGED <<settings, rubric_items, _jobs, optimal_batch_size, batches,
                   tasks, finish_order, batch_results, emit_pos,
                   completed_items, events>>

\* lines 150-158 and event_generator 63-72: the range is exhausted
JobComplete ==
    /\ pc = "loop"
    /\ batch_start >= total_items
    /\ LET complete == PartialResult("job_complete", "None", "None",
                                     Frac(1, 1), "Grading completed")
       IN  /\ _jobs' = JobAfter(_jobs, complete)
           /\ events' = Append(events, SSE(complete))
    /\ pc' = "done"
    /\ UNCHANGED <<settings, rubric_items, optimal_batch_size, batch_start,
                   batches, tasks, finish_order, batch_results, emit_pos,
                   completed_items>>

\* the consumer disconnects while the stream waits in gather (line 118) or
\* at a yield (line 69): the stream's task is cancelled there, and
\* CancelledError is not an Exception, so lines 74-86 do not run
Disconnect ==
    /\ pc \in {"gather", "emit"}
    /\ pc' = "cancelled"
    /\ UNCHANGED <<settings, rubric_items, _jobs, optimal_batch_size,
                   batch_start, batches, tasks, finish_order, batch_results,
                   emit_pos, completed_items, events>>

Next ==
    \/ grade_submission_route /\ UNCHANGED <<vote_vars, eval_vars, call_vars, repo_vars, service_vars, store_vars, route_vars>>
    \/ Prepare /\ UNCHANGED <<vote_vars, eval_vars, call_vars, repo_vars, service_vars, store_vars, route_vars>>
    \/ PrepareFails /\ UNCHANGED <<vote_vars, eval_vars, call_vars, repo_vars, service_vars, store_vars, route_vars>>
    \/ StartBatch /\ UNCHANGED <<vote_vars, eval_vars, call_vars, repo_vars, service_vars, store_vars, route_vars>>
    \/ \E i \in 1..total_items : LaunchCalls(i) /\ UNCHANGED <<vote_vars, eval_vars, call_vars, repo_vars, service_vars, store_vars, route_vars>>
    \/ \E i \in 1..total_items : SearchCaveatsRaises(i) /\ UNCHANGED <<vote_vars, eval_vars, call_vars, repo_vars, service_vars, store_vars, route_vars>>
    \/ \E i \in 1..total_items, c \in 1..settings.parallel_llm_calls :
         LLMCallReturns(i, c) /\ UNCHANGED <<vote_vars, eval_vars, call_vars, repo_vars, service_vars, store_vars, route_vars>>
    \/ GatherReturns /\ UNCHANGED <<vote_vars, eval_vars, call_vars, repo_vars, service_vars, store_vars, route_vars>>
    \/ EmitPartial /\ UNCHANGED <<vote_vars, eval_vars, call_vars, repo_vars, service_vars, store_vars, route_vars>>
    \/ BatchEnd /\ UNCHANGED <<vote_vars, eval_vars, call_vars, repo_vars, service_vars, store_vars, route_vars>>
    \/ JobComplete /\ UNCHANGED <<vote_vars, eval_vars, call_vars, repo_vars, service_vars, store_vars, route_vars>>
    \/ Disconnect /\ UNCHANGED <<vote_vars, eval_vars, call_vars, repo_vars, service_vars, store_vars, route_vars>>

Spec == Init /\ [][Next]_vars

(* ------------------------ _majority_vote, alone ----------------------- *)
\* confidences the verdicts report (CheckboxVerdict / RadioVerdict: 0..100)
CheckboxConfidences == {70, 80, 90}
RadioConfidences == {70, 90}

\* what one call reports: its decision or option, and its confidence
Reports(t) ==
    IF t = "CHECKBOX" THEN RubricDecisions \X CheckboxConfidences
    ELSE OptionKeys \X RadioConfidences

\* the verdicts of calls 1..n reporting f; the comment tells the calls apart
VerdictsOf(t, f) ==
    [i \in DOMAIN f |->
       IF t = "CHECKBOX"
       THEN CheckboxVerdict(f[i][1], Evidence("main.cpp", "1-2"), i, f[i][2])
       ELSE RadioVerdict(f[i][1], Evidence("main.cpp", "1-2"), i, f[i][2])]

InitVote ==
    /\ vote_type \in RubricTypes
    /\ \E n \in 1..MaxVerdicts :
         \E f \in [1..n -> Reports(vote_type)] :
            vote_verdicts = VerdictsOf(vote_type, f)
    /\ vote_result = None
    /\ PipelineIdle
    /\ EvalIdle
    /\ CallIdle
    /\ StoreIdle
    /\ RouteIdle
    /\ RepoIdle
    /\ ServiceIdle

\* grading.py line 220
Vote ==
    /\ vote_result = None
    /\ vote_result' = _majority_vote(vote_verdicts, vote_type)
    /\ UNCHANGED <<vote_verdicts, vote_type, pipeline_vars, eval_vars,
                   call_vars, repo_vars, service_vars, store_vars, route_vars>>

NextVote == Vote

SpecVote == InitVote /\ [][NextVote]_vars

(* --------- LLMService.evaluate_rubric_item under the retry ------------ *)
\* the items a call can be about: one of each type
CallItem(t) == RubricItem(1, t)

InitCall ==
    /\ call_type \in RubricTypes
    /\ call_keywords \in {CallKeywords, DeclaredKeywords}
    /\ call_log = <<>>
    /\ call_waits = <<>>
    /\ call_result = NoResult
    /\ PipelineIdle
    /\ VoteIdle
    /\ EvalIdle
    /\ StoreIdle
    /\ RouteIdle
    /\ RepoIdle
    /\ ServiceIdle

\* llm/service.py 91-135: one attempt.  Its exception is raised to the
\* caller (reraise=True) unless retry asks for another attempt
CallAttempt ==
    /\ call_result = NoResult
    /\ \E response \in ProviderResponses(CallItem(call_type)) :
         LET attempt_number == Len(call_log) + 1
             outcome == evaluate_rubric_item(call_keywords, call_type, response)
             again == IsException(outcome) /\ retry(outcome, attempt_number)
         IN  /\ call_log' = Append(call_log, outcome)
             /\ call_waits' = IF again
                              THEN Append(call_waits, wait(attempt_number))
                              ELSE call_waits
             /\ call_result' = IF again THEN NoResult ELSE outcome
    /\ UNCHANGED <<call_type, call_keywords, pipeline_vars, vote_vars,
                   eval_vars, store_vars, route_vars, repo_vars, service_vars>>

NextCall == CallAttempt

SpecCall == InitCall /\ [][NextCall]_vars

(* ------- one item: its calls under retry, and its decision ------------ *)
\* one call before its first attempt
\* the provider's response is a verdict of the item's type that passes the
\* models' validation
WellFormed(response, rubric_type) ==
    /\ response.kind # "raise"
    /\ ~IsException(_parse_response(response, rubric_type))

\* a call before its first attempt; wellformed tells whether the provider's
\* response to the call's latest attempt was well-formed
NoAttempt == [attempts |-> 0, result |-> NoResult, wellformed |-> FALSE]

InitEval ==
    /\ eval_item \in {RubricItem(1, t) : t \in RubricTypes}
    /\ eval_keywords \in {CallKeywords, DeclaredKeywords}
    /\ eval_calls \in {[c \in 1..n |-> NoAttempt] : n \in 1..MaxParallel}
    /\ eval_decision = None
    /\ PipelineIdle
    /\ VoteIdle
    /\ CallIdle
    /\ StoreIdle
    /\ RouteIdle
    /\ RepoIdle
    /\ ServiceIdle

\* grading.py 182-194 and llm/service.py 91-135: one attempt of call c
Attempt(c) ==
    /\ eval_decision = None
    /\ eval_calls[c].result = NoResult
    /\ \E response \in ProviderResponses(eval_item) :
         LET attempt_number == eval_calls[c].attempts + 1
             outcome == evaluate_rubric_item(eval_keywords, eval_item.type,
                                             response)
             again == IsException(outcome) /\ retry(outcome, attempt_number)
         IN  eval_calls' = [eval_calls EXCEPT ![c] =
                              [attempts |-> attempt_number,
                               result |-> IF again THEN NoResult ELSE outcome,
                               wellformed |-> WellFormed(response, eval_item.type)]]
    /\ UNCHANGED <<eval_item, eval_keywords, eval_decision, pipeline_vars,
                   vote_vars, call_vars, repo_vars, service_vars, store_vars, route_vars>>

\* mutation of Decide: one failed call is enough for the fallback decision
Decide_anyfailed ==
    /\ eval_decision = None
    /\ \A c \in DOMAIN eval_calls : eval_calls[c].result # NoResult
    /\ eval_decision' =
         IF \E c \in DOMAIN eval_calls : IsException(eval_calls[c].result)
         THEN _create_fallback_decision(eval_item)
         ELSE _evaluate_rubric_item(eval_item,
                                    [c \in DOMAIN eval_calls |-> eval_calls[c].result])
    /\ UNCHANGED <<eval_item, eval_keywords, eval_calls, pipeline_vars,
                   vote_vars, call_vars, repo_vars, service_vars, store_vars, route_vars>>

\* grading.py 197-229: every call has ended; the decision from their results
Decide ==
    /\ eval_decision = None
    /\ \A c \in DOMAIN eval_calls : eval_calls[c].result # NoResult
    /\ eval_decision' =
         _evaluate_rubric_item(eval_item,
                               [c \in DOMAIN eval_calls |-> eval_calls[c].result])
    /\ UNCHANGED <<eval_item, eval_keywords, eval_calls, pipeline_vars,
                   vote_vars, call_vars, repo_vars, service_vars, store_vars, route_vars>>

\* grading.py 168-180 and 131-135: the item's coroutine raises before its
\* LLM calls are launched (section lookup, caveat search); gather hands the
\* exception to grade_submission, which makes the fallback decision of it;
\* no call of the item exists
EvalRaises ==
    /\ eval_decision = None
    /\ \A c \in DOMAIN eval_calls : eval_calls[c].attempts = 0
    /\ eval_calls' = <<>>
    /\ eval_decision' = DecisionOf(eval_item, Raised("CaveatError"))
    /\ UNCHANGED <<eval_item, eval_keywords, pipeline_vars, vote_vars,
                   call_vars, repo_vars, service_vars, store_vars, route_vars>>

NextEval ==
    \/ \E c \in DOMAIN eval_calls : Attempt(c)
    \/ Decide
    \/ EvalRaises

SpecEval == InitEval /\ [][NextEval]_vars

(* ------ the job record under several requests for one submission ----- *)
\* the requests that can be sent for the submission
Requests == {1, 2}

\* JobRepositoryFactory._repositories
RepositoryTypes == {"memory", "redis"}

Unsent(n) ==
    [pc |-> "unsent", total_items |-> n, emitted |-> 0, delivered |-> <<>>,
     error |-> "None"]

InitStore ==
    /\ requests \in [Requests -> {Unsent(n) : n \in 1..MaxItems}]
    /\ repository \in RepositoryTypes
    /\ store_up = TRUE
    /\ PipelineIdle
    /\ VoteIdle
    /\ EvalIdle
    /\ CallIdle
    /\ RouteIdle
    /\ RepoIdle
    /\ ServiceIdle

other_pipeline_vars ==
    <<settings, rubric_items, pc, optimal_batch_size, batch_start, batches,
      tasks, finish_order, batch_results, emit_pos, completed_items, events>>

\* the connection to the Redis server is lost, or comes back
StoreDown ==
    /\ repository = "redis"
    /\ store_up
    /\ store_up' = FALSE
    /\ UNCHANGED <<requests, repository, pipeline_vars, vote_vars, eval_vars,
                   call_vars, repo_vars, service_vars, route_vars>>

StoreBack ==
    /\ ~store_up
    /\ store_up' = TRUE
    /\ UNCHANGED <<requests, repository, pipeline_vars, vote_vars, eval_vars,
                   call_vars, repo_vars, service_vars, route_vars>>

\* routes/grading.py 32-44: request r creates the job record; an exception
\* of create_job ends the request before the stream
Submit(r) ==
    /\ requests[r].pc = "unsent"
    /\ IF store_up
       THEN /\ _jobs' = put_job(_jobs, JobId,
                                JobStatus(JobId, "processing",
                                          requests[r].total_items))
            /\ requests' = [requests EXCEPT ![r].pc = "streaming"]
       ELSE /\ requests' = [requests EXCEPT ![r].pc = "refused"]
            /\ UNCHANGED _jobs
    /\ UNCHANGED <<repository, store_up, other_pipeline_vars, vote_vars,
                   eval_vars, call_vars, repo_vars, service_vars, route_vars>>

\* event_generator 57-72 for the next partial_result of request r's pipeline
HandlePartial(r) ==
    /\ requests[r].pc = "streaming"
    /\ requests[r].emitted < requests[r].total_items
    /\ store_up
    /\ _jobs' = JobAfter(_jobs,
                         PartialResult("partial_result", requests[r].emitted + 1,
                                       "None",
                                       Progress(requests[r].emitted + 1,
                                                requests[r].total_items),
                                       "None"))
    /\ requests' = [requests EXCEPT
                      ![r].emitted = requests[r].emitted + 1,
                      ![r].delivered = Append(requests[r].delivered,
                                              "partial_result")]
    /\ UNCHANGED <<repository, store_up, other_pipeline_vars, vote_vars,
                   eval_vars, call_vars, repo_vars, service_vars, route_vars>>

\* event_generator 63-72 for the job_complete of request r's pipeline
HandleComplete(r) ==
    /\ requests[r].pc = "streaming"
    /\ requests[r].emitted = requests[r].total_items
    /\ store_up
    /\ _jobs' = JobAfter(_jobs,
                         PartialResult("job_complete", "None", "None",
                                       Frac(1, 1), "Grading completed"))
    /\ requests' = [requests EXCEPT
                      ![r].pc = "done",
                      ![r].delivered = Append(requests[r].delivered,
                                              "job_complete")]
    /\ UNCHANGED <<repository, store_up, other_pipeline_vars, vote_vars,
                   eval_vars, call_vars, repo_vars, service_vars, route_vars>>

\* grading.py 81-94: request r's pipeline raises before its first batch; the
\* exception reaches the except clause of event_generator
PipelineRaises(r) ==
    /\ requests[r].pc = "streaming"
    /\ requests[r].emitted = 0
    /\ requests' = [requests EXCEPT ![r].pc = "except",
                                    ![r].error = "division by zero"]
    /\ UNCHANGED <<_jobs, repository, store_up, other_pipeline_vars, vote_vars,
                   eval_vars, call_vars, repo_vars, service_vars, route_vars>>

\* event_generator 57-66: get_job or update_job raises while a pipeline
\* result is handled; the result is not delivered
StoreAccessRaises(r) ==
    /\ requests[r].pc = "streaming"
    /\ ~store_up
    /\ requests' = [requests EXCEPT ![r].pc = "except",
                                    ![r].error = "connection error"]
    /\ UNCHANGED <<_jobs, repository, store_up, other_pipeline_vars, vote_vars,
                   eval_vars, call_vars, repo_vars, service_vars, route_vars>>

\* event_generator 74-86: the except clause.  Its own get_job / update_job
\* raise when the store cannot be reached, and the exception leaves the
\* generator before the error event is yielded
ExceptClause(r) ==
    /\ requests[r].pc = "except"
    /\ IF store_up
       THEN /\ _jobs' = JobFailed(_jobs, requests[r].error)
            /\ requests' = [requests EXCEPT
                              ![r].pc = "done",
                              ![r].delivered = Append(requests[r].delivered,
                                                      "error")]
       ELSE /\ requests' = [requests EXCEPT ![r].pc = "crashed"]
            /\ UNCHANGED _jobs
    /\ UNCHANGED <<repository, store_up, other_pipeline_vars, vote_vars,
                   eval_vars, call_vars, repo_vars, service_vars, route_vars>>

NextStore ==
    \/ StoreDown
    \/ StoreBack
    \/ \E r \in Requests : Submit(r)
    \/ \E r \in Requests : HandlePartial(r)
    \/ \E r \in Requests : HandleComplete(r)
    \/ \E r \in Requests : PipelineRaises(r)
    \/ \E r \in Requests : StoreAccessRaises(r)
    \/ \E r \in Requests : ExceptClause(r)

SpecStore == InitStore /\ [][NextStore]_vars

(* ------------------ validate_submission_request ----------------------- *)
\* not s or not s.strip()
Blank(str) == str \in {"", " "}

\* one entry of the errors list: its text and what it is about
Message(text, about) == <<text, about>>

\* "".join of a list of sequences
RECURSIVE Flatten(_)
Flatten(ss) == IF ss = <<>> THEN <<>> ELSE Head(ss) \o Flatten(Tail(ss))

\* options is a dict: its (key, text) pairs in insertion order
_validate_radio_options(item_id, options) ==
    (IF Len(options) < 2
     THEN <<Message("must have at least 2 options", item_id)>> ELSE <<>>)
    \o Flatten([k \in 1..Len(options) |->
         (IF Blank(options[k][1])
          THEN <<Message("has empty option key", item_id)>> ELSE <<>>)
         \o (IF Blank(options[k][2])
             THEN <<Message("has empty option text", item_id)>> ELSE <<>>)])

\* mutation of _validate_rubric_items: items after the first are not examined
_validate_rubric_items_first(rubric_items_) ==
    LET errors_of(i) ==
          LET item == rubric_items_[i]
          IN  (IF \E j \in 1..(i - 1) : rubric_items_[j].id = item.id
               THEN <<Message("Duplicate rubric item ID", item.id)>> ELSE <<>>)
              \o (IF Blank(item.description)
                  THEN <<Message("has empty description", item.id)>> ELSE <<>>)
              \o (IF item.points < 0
                  THEN <<Message("has negative points", item.id)>> ELSE <<>>)
              \o (IF item.type = "RADIO"
                  THEN IF item.options = <<>>
                       THEN <<Message("has no options", item.id)>>
                       ELSE _validate_radio_options(item.id, item.options)
                  ELSE <<>>)
    IN  errors_of(1)

_validate_rubric_items(rubric_items_) ==
    LET errors_of(i) ==
          LET item == rubric_items_[i]
          IN  (IF \E j \in 1..(i - 1) : rubric_items_[j].id = item.id
               THEN <<Message("Duplicate rubric item ID", item.id)>> ELSE <<>>)
              \o (IF Blank(item.description)
                  THEN <<Message("has empty description", item.id)>> ELSE <<>>)
              \o (IF item.points < 0
                  THEN <<Message("has negative points", item.id)>> ELSE <<>>)
              \o (IF item.type = "RADIO"
                  THEN IF item.options = <<>>
                       THEN <<Message("has no options", item.id)>>
                       ELSE _validate_radio_options(item.id, item.options)
                  ELSE <<>>)
    IN  Flatten([i \in 1..Len(rubric_items_) |-> errors_of(i)])

\* 10 * 1024 * 1024
max_total_size == 10485760

\* sum of the sizes of the files that have a filename
RECURSIVE TotalSize(_)
TotalSize(files) ==
    IF files = <<>> THEN 0
    ELSE (IF Blank(Head(files).filename) THEN 0 ELSE Head(files).size)
         + TotalSize(Tail(files))

\* source_files is a dict: its files in insertion order, each with the
\* length of its content
_validate_source_files(source_files) ==
    Flatten([k \in 1..Len(source_files) |->
               IF Blank(source_files[k].filename)
               THEN <<Message("Found file with empty filename", k)>>
               ELSE <<>>])
    \o (IF TotalSize(source_files) > max_total_size
        THEN <<Message("Total source files size exceeds maximum", "files")>>
        ELSE <<>>)

_validate_assignment_context(req) ==
    LET context == req.assignment_context
    IN  (IF Blank(context.course_id)
         THEN <<Message("Course ID is required", "context")>> ELSE <<>>)
        \o (IF Blank(context.assignment_id)
            THEN <<Message("Assignment ID is required", "context")>> ELSE <<>>)
        \o (IF Blank(context.submission_id)
            THEN <<Message("Submission ID is required", "context")>> ELSE <<>>)
        \o (IF context.assignment_name # "None" /\ Blank(context.assignment_name)
            THEN <<Message("Assignment name cannot be empty string", "context")>>
            ELSE <<>>)

\* the errors list of validate_submission_request; HTTPException(400) is
\* raised when it is not empty
validate_submission_request(req) ==
    (IF req.rubric_items = <<>>
     THEN <<Message("No rubric items provided", "request")>>
     ELSE _validate_rubric_items(req.rubric_items))
    \o (IF req.source_files = <<>>
        THEN <<Message("No source files provided", "request")>>
        ELSE _validate_source_files(req.source_files))
    \o _validate_assignment_context(req)

(* --------------- the grade-submission route, any request -------------- *)
\* what a rubric item of a request can look like, besides its id
ItemShapes ==
    {[description |-> d, points |-> pts, type |-> "CHECKBOX", options |-> NoOptions]
       : d \in {"d", ""}, pts \in {2, -2}}
    \cup
    {[description |-> "d", points |-> 0, type |-> "RADIO", options |-> o]
       : o \in {NoOptions,
                <<<<"A", "a">>>>,
                <<<<"A", " ">>>>,
                <<<<"A", "a">>, <<"B", "b">>>>,
                <<<<"", "a">>, <<"B", "b">>>>,
                <<<<"A", "a">>, <<"B", "">>>>}}

ItemIds == {"i1", "i2"}

RequestItem(id, shape) ==
    [id |-> id, description |-> shape.description, points |-> shape.points,
     type |-> shape.type, options |-> shape.options]

SourceFile(name, size) == [filename |-> name, size |-> size]

SourceFileSets ==
    {<<>>,
     <<SourceFile("main.cpp", 100)>>,
     <<SourceFile("", 100), SourceFile("main.cpp", 100)>>,
     <<SourceFile("main.cpp", 100), SourceFile("big.cpp", max_total_size)>>}

AssignmentContext(c, a, sub, name) ==
    [course_id |-> c, assignment_id |-> a, submission_id |-> sub,
     assignment_name |-> name]

AssignmentContexts ==
    {AssignmentContext("12345", "67890", "424242", "None"),
     AssignmentContext("", "67890", "424242", "None"),
     AssignmentContext("12345", " ", "424242", "None"),
     AssignmentContext("12345", "67890", "", "BST"),
     AssignmentContext("", "", "", ""),
     AssignmentContext("12345", "67890", "424242", ""),
     AssignmentContext("cs_15", "67890", "424242", "None"),
     AssignmentContext("cs15", "hw_", "424242", "None")}

SubmissionRequest(context, files, items) ==
    [assignment_context |-> context, source_files |-> files,
     rubric_items |-> items]

InitValidate ==
    /\ \E n \in 0..MaxRequestItems :
         \E ids \in [1..n -> ItemIds], shapes \in [1..n -> ItemShapes] :
            \E files \in SourceFileSets, context \in AssignmentContexts :
               route_request =
                   SubmissionRequest(context, files,
                                     [k \in 1..n |-> RequestItem(ids[k], shapes[k])])
    /\ route_response = NoResult
    /\ PipelineIdle
    /\ VoteIdle
    /\ EvalIdle
    /\ CallIdle
    /\ StoreIdle
    /\ RepoIdle
    /\ ServiceIdle

HTTPException(status_code, detail) ==
    [kind |-> "HTTPException", status_code |-> status_code, detail |-> detail]

EventSourceResponse == [kind |-> "EventSourceResponse"]

\* the characters of the strings the ids of a request are drawn from
Characters(str) ==
    CASE str = "" -> <<>>
      [] str = " " -> <<" ">>
      [] str = "12345" -> <<"1", "2", "3", "4", "5">>
      [] str = "67890" -> <<"6", "7", "8", "9", "0">>
      [] str = "424242" -> <<"4", "2", "4", "2", "4", "2">>
      [] str = "cs_15" -> <<"c", "s", "_", "1", "5">>
      [] str = "cs15" -> <<"c", "s", "1", "5">>
      [] str = "hw_" -> <<"h", "w", "_">>

\* routes/grading.py 35-36: the f-string that names the job
job_id(req) ==
    Characters(req.assignment_context.course_id) \o <<"_">>
    \o Characters(req.assignment_context.assignment_id) \o <<"_">>
    \o Characters(req.assignment_context.submission_id)

\* s.split(sep): the pieces of s between the occurrences of the character sep
RECURSIVE split(_, _)
split(s, sep) ==
    IF \A k \in 1..Len(s) : s[k] # sep THEN <<s>>
    ELSE LET first == CHOOSE k \in 1..Len(s) :
                         s[k] = sep /\ \A j \in 1..(k - 1) : s[j] # sep
         IN  <<SubSeq(s, 1, first - 1)>> \o split(SubSeq(s, first + 1, Len(s)), sep)

\* s.strip() is not empty: s has a character that is not whitespace
strip(s) == SelectSeq(s, LAMBDA ch : ch # " ") # <<>>

\* validators/submission.py 148-167
validate_job_id_format(id) ==
    IF id = <<>> \/ ~strip(id) THEN FALSE
    ELSE LET parts == split(id, "_")
         IN  IF Len(parts) < 3 THEN FALSE
             ELSE \A k \in 1..Len(parts) : strip(parts[k])

JobIdOf(req) ==
    <<req.assignment_context.course_id, req.assignment_context.assignment_id,
      req.assignment_context.submission_id>>

\* routes/grading.py 32-33: validation raises HTTPException(400)
RouteRefuses ==
    /\ route_response = NoResult
    /\ validate_submission_request(route_request) # <<>>
    /\ route_response' =
         HTTPException(400, validate_submission_request(route_request))
    /\ UNCHANGED <<route_request, pipeline_vars, vote_vars, eval_vars,
                   call_vars, repo_vars, service_vars, store_vars>>

\* routes/grading.py 32-44, 88: validation passes, the job record is created
\* and the event stream, which runs the pipeline, is returned
RouteAccepts ==
    /\ route_response = NoResult
    /\ validate_submission_request(route_request) = <<>>
    /\ _jobs' = put_job(_jobs, JobIdOf(route_request),
                        JobStatus(JobIdOf(route_request), "processing",
                                  Len(route_request.rubric_items)))
    /\ route_response' = EventSourceResponse
    /\ UNCHANGED <<route_request, other_pipeline_vars, vote_vars, eval_vars,
                   call_vars, repo_vars, service_vars, store_vars>>

NextValidate ==
    \/ RouteRefuses
    \/ RouteAccepts

SpecValidate == InitValidate /\ [][NextValidate]_vars

(* ----------------- the job repository's own operations ---------------- *)
\* the job ids in use: three submissions
JobIds == {"c_a_s1", "c_a_s2", "c_a_s3"}

\* readings of time.time(), in seconds, in the order they are taken
Times == <<0, 3600, 7190, 7200>>
current_time == Times[now]

\* max_age_seconds arguments of cleanup_old_jobs
MaxAges == {3600}

\* what TTL answers for a key that is absent, and the TTL read for a key
\* that is present (some positive number of seconds)
TtlAbsent == -2
TtlPresent == 1

\* del self._jobs[job_id] / DEL key
remove_job(jobs, id) == [k \in DOMAIN jobs \ {id} |-> jobs[k]]

\* cleanup_old_jobs: the ids it collects from the creation times
old_job_ids(created_times, current, max_age_seconds) ==
    {id \in DOMAIN created_times : current - created_times[id] > max_age_seconds}

\* cleanup_old_jobs: the jobs and creation times it leaves and what it returns
cleanup_old_jobs(repo, jobs, created_times, current, max_age_seconds) ==
    LET old == old_job_ids(created_times, current, max_age_seconds)
    IN  [jobs |-> [k \in DOMAIN jobs \ old |-> jobs[k]],
         created_times |-> [k \in DOMAIN created_times \ old |-> created_times[k]],
         returned |-> IF repo = "memory" THEN Cardinality(old)
                      ELSE Cardinality(old \cap DOMAIN jobs)]

InitRepo ==
    /\ repository \in RepositoryTypes
    /\ requests = <<>>
    /\ store_up = TRUE
    /\ PipelineIdle
    /\ VoteIdle
    /\ EvalIdle
    /\ CallIdle
    /\ RouteIdle
    /\ RepoIdle
    /\ ServiceIdle

repo_others ==
    <<repository, requests, store_up, other_pipeline_vars, vote_vars,
      eval_vars, call_vars, route_vars, service_vars>>

\* time passes
Tick ==
    /\ now < Len(Times)
    /\ now' = now + 1
    /\ UNCHANGED <<_jobs, _created_times, born, update_call, cleanup_call,
                   repo_others>>

\* create_job(job_id, JobStatus(status="processing")), routes/grading.py 39-44
CreateJob(id) ==
    /\ _jobs' = put_job(_jobs, id, JobStatus(id, "processing", 1))
    /\ _created_times' = put_job(_created_times, id, current_time)
    /\ born' = put_job(born, id, current_time)
    /\ UNCHANGED <<now, update_call, cleanup_call, repo_others>>

\* delete_job(job_id) on a stored id, routes/jobs.py 46
DeleteJob(id) ==
    /\ id \in DOMAIN _jobs
    /\ _jobs' = remove_job(_jobs, id)
    /\ _created_times' = remove_job(_created_times, id)
    /\ born' = remove_job(born, id)
    /\ UNCHANGED <<now, update_call, cleanup_call, repo_others>>

\* the keys of a job reach the end of their time to live (ex=cache_ttl)
Expire(id) ==
    /\ repository = "redis"
    /\ id \in DOMAIN _jobs
    /\ _jobs' = remove_job(_jobs, id)
    /\ _created_times' = remove_job(_created_times, id)
    /\ born' = remove_job(born, id)
    /\ UNCHANGED <<now, update_call, cleanup_call, repo_others>>

UpdateRunning ==
    update_call # None /\ update_call.pc \in {"called", "ttl", "set"}

\* update_job(job_id, job_status) is called, routes/grading.py 62, 66, 80
UpdateCall(id) ==
    /\ ~UpdateRunning
    /\ update_call' = [job_id |-> id, pc |-> "called", ttl |-> 0]
    /\ UNCHANGED <<_jobs, _created_times, born, now, cleanup_call, repo_others>>

\* MemoryJobRepository.update_job, 29-33: no await between test and write
UpdateMemory ==
    /\ repository = "memory"
    /\ UpdateRunning
    /\ LET id == update_call.job_id
       IN  IF id \in DOMAIN _jobs
           THEN /\ _jobs' = put_job(_jobs, id, JobStatus(id, "completed", 1))
                /\ update_call' = [update_call EXCEPT !.pc = "returned"]
           ELSE /\ update_call' = [update_call EXCEPT !.pc = "ValueError"]
                /\ UNCHANGED _jobs
    /\ UNCHANGED <<_created_times, born, now, cleanup_call, repo_others>>

\* RedisJobRepository.update_job, 100-101: await EXISTS
UpdateExists ==
    /\ repository = "redis"
    /\ update_call # None
    /\ update_call.pc = "called"
    /\ update_call' =
         [update_call EXCEPT
            !.pc = IF update_call.job_id \in DOMAIN _jobs THEN "ttl"
                   ELSE "ValueError"]
    /\ UNCHANGED <<_jobs, _created_times, born, now, cleanup_call, repo_others>>

\* RedisJobRepository.update_job, 105: await TTL
UpdateTtl ==
    /\ repository = "redis"
    /\ update_call # None
    /\ update_call.pc = "ttl"
    /\ update_call' =
         [update_call EXCEPT
            !.pc = "set",
            !.ttl = IF update_call.job_id \in DOMAIN _jobs THEN TtlPresent
                    ELSE TtlAbsent]
    /\ UNCHANGED <<_jobs, _created_times, born, now, cleanup_call, repo_others>>

\* RedisJobRepository.update_job, 107-112: await SET with ex=ttl or, for
\* ttl <= 0, ex=settings.cache_ttl; SET writes the key whether or not it exists
UpdateSet ==
    /\ repository = "redis"
    /\ update_call # None
    /\ update_call.pc = "set"
    /\ LET id == update_call.job_id
       IN  /\ _jobs' = put_job(_jobs, id, JobStatus(id, "completed", 1))
           /\ born' = IF id \in DOMAIN _jobs THEN born
                      ELSE put_job(born, id, current_time)
    /\ update_call' = [update_call EXCEPT !.pc = "returned"]
    /\ UNCHANGED <<_created_times, now, cleanup_call, repo_others>>

\* POST /jobs/cleanup arrives, routes/jobs.py 53-58
CleanupCall(max_age_seconds) ==
    /\ IF cleanup_call = None THEN TRUE ELSE cleanup_call.pc = "returned"
    /\ cleanup_call' = [pc |-> "called", max_age_seconds |-> max_age_seconds,
                        returned |-> 0]
    /\ UNCHANGED <<_jobs, _created_times, born, now, update_call, repo_others>>

\* cleanup_old_jobs runs, memory_repository.py 52-67, redis_repository.py
\* 158-190
CleanupRun ==
    /\ cleanup_call # None
    /\ cleanup_call.pc = "called"
    /\ LET r == cleanup_old_jobs(repository, _jobs, _created_times, current_time,
                                 cleanup_call.max_age_seconds)
       IN  /\ _jobs' = r.jobs
           /\ _created_times' = r.created_times
           /\ born' = [k \in DOMAIN r.jobs |-> born[k]]
           /\ cleanup_call' = [cleanup_call EXCEPT !.pc = "returned",
                                                   !.returned = r.returned]
    /\ UNCHANGED <<now, update_call, repo_others>>

NextRepo ==
    \/ Tick
    \/ \E id \in JobIds : CreateJob(id)
    \/ \E id \in JobIds : Expire(id)
    \/ \E id \in JobIds : DeleteJob(id)
    \/ \E id \in JobIds : UpdateCall(id)
    \/ UpdateMemory
    \/ UpdateExists
    \/ UpdateTtl
    \/ UpdateSet
    \/ \E m \in MaxAges : CleanupCall(m)
    \/ CleanupRun

SpecRepo == InitRepo /\ [][NextRepo]_vars

(* ------- LLMService._ensure_provider under concurrent calls ----------- *)
\* settings.llm_provider, and the API key configured for it
LLMProviders == {"openai", "anthropic"}
ApiKeys == {"None", "sk-key"}

\* what provider.call_llm and the parsing of its response end an attempt with
AttemptOutcomes ==
    {Raised("TimeoutException"), Raised("AuthenticationError"),
     [verdict |-> TRUE]}

\* one evaluate_rubric_item call: where it is, the attempt it is at
ServiceCall(at, attempt_number, result) ==
    [pc |-> at, attempt_number |-> attempt_number, result |-> result]

\* anthropic.AsyncAnthropic(api_key=...) / openai.AsyncOpenAI(api_key=...)
Client(provider) == [client_of |-> provider.provider_name]

\* LLMProviderFactory.create_provider: ValueError without an API key
create_provider(s) ==
    IF s.api_key = "None" THEN Raised("ValueError")
    ELSE [provider_name |-> s.llm_provider, api_key |-> s.api_key]

\* a fresh LLMService, as GradingService.__init__ makes it, and the
\* coroutines of the calls that _evaluate_rubric_item gathers
InitService ==
    /\ llm_settings \in [llm_provider : LLMProviders, api_key : ApiKeys]
    /\ _provider = None
    /\ _initialized = FALSE
    /\ _client = None
    /\ initialize_calls = 0
    /\ \E n \in 1..MaxServiceCalls :
         service_calls = [c \in 1..n |-> ServiceCall("created", 1, NoResult)]
    /\ PipelineIdle
    /\ VoteIdle
    /\ EvalIdle
    /\ CallIdle
    /\ StoreIdle
    /\ RouteIdle
    /\ RepoIdle

service_others ==
    <<llm_settings, pipeline_vars, vote_vars, eval_vars, call_vars, store_vars,
      route_vars, repo_vars>>

\* mutation of _ensure_provider: initialize() suspends, and the flag is
\* still unset when the other calls run
_ensure_provider_suspending(c) ==
    /\ service_calls[c].pc \in {"created", "waiting"}
    /\ LET provider == IF _provider = None THEN create_provider(llm_settings)
                        ELSE _provider
       IN  IF IsException(provider)
           THEN /\ service_calls' = [service_calls EXCEPT ![c] =
                       ServiceCall("done", @.attempt_number, provider)]
                /\ UNCHANGED <<_provider, _initialized, _client, initialize_calls>>
           ELSE /\ _provider' = provider
                /\ _initialized' = _initialized
                /\ _client' = Client(provider)
                /\ initialize_calls' =
                       initialize_calls + (IF _initialized THEN 0 ELSE 1)
                /\ service_calls' = [service_calls EXCEPT ![c].pc = "calling"]
    /\ UNCHANGED service_others

\* llm/service.py 79-89, 112 and the providers' initialize / call_llm up to
\* the request: an attempt of call c runs from its start to its first
\* suspension, the await of the API request.  No await before it suspends:
\* initialize() of both providers only builds the client
_ensure_provider(c) ==
    /\ service_calls[c].pc \in {"created", "waiting"}
    /\ LET provider == IF _provider = None THEN create_provider(llm_settings)
                        ELSE _provider
       IN  IF IsException(provider)
           THEN /\ service_calls' = [service_calls EXCEPT ![c] =
                       ServiceCall("done", @.attempt_number, provider)]
                /\ UNCHANGED <<_provider, _initialized, _client, initialize_calls>>
           ELSE LET first == ~_initialized
                    client == IF first THEN Client(provider) ELSE _client
                    again == client = None
                IN  /\ _provider' = provider
                    /\ _initialized' = TRUE
                    /\ _client' = IF again THEN Client(provider) ELSE client
                    /\ initialize_calls' = initialize_calls
                                            + (IF first THEN 1 ELSE 0)
                                            + (IF again THEN 1 ELSE 0)
                    /\ service_calls' = [service_calls EXCEPT ![c].pc = "calling"]
    /\ UNCHANGED service_others

\* llm/service.py 126-135 and the retry decorator: the attempt of call c
\* ends; a retryable exception makes the call sleep before its next attempt
AttemptEnds(c) ==
    /\ service_calls[c].pc = "calling"
    /\ \E outcome \in AttemptOutcomes :
         LET attempt_number == service_calls[c].attempt_number
         IN  service_calls' = [service_calls EXCEPT ![c] =
                IF IsException(outcome) /\ retry(outcome, attempt_number)
                THEN ServiceCall("waiting", attempt_number + 1, NoResult)
                ELSE ServiceCall("done", attempt_number, outcome)]
    /\ UNCHANGED <<_provider, _initialized, _client, initialize_calls>>
    /\ UNCHANGED service_others

NextService ==
    \/ \E c \in DOMAIN service_calls : _ensure_provider(c)
    \/ \E c \in DOMAIN service_calls : AttemptEnds(c)

SpecService == InitService /\ [][NextService]_vars

(* ===================== properties of _majority_vote =================== *)
VoteDone == vote_result # None
VoteIndices == 1..Len(vote_verdicts)
HoldersOf(d) == {i \in VoteIndices : vote_verdicts[i].decision = d}
SelectorsOf(o) == {i \in VoteIndices : vote_verdicts[i].selected_option = o}
Least(S) == CHOOSE i \in S : \A j \in S : i <= j
\* the indices of highest reported confidence within a set of indices
TopConfidence(S) ==
    {i \in S : \A j \in S : vote_verdicts[j].confidence <= vote_verdicts[i].confidence}
\* the options selected most often
Leading ==
    {o \in OptionKeys : /\ SelectorsOf(o) # {}
                        /\ \A o2 \in OptionKeys :
                             Cardinality(SelectorsOf(o2)) <= Cardinality(SelectorsOf(o))}
RadioTie == vote_type = "RADIO" /\ Cardinality(Leading) >= 2

\* C7: for a non-empty list of BINARY verdicts the vote resolves to a most
\* frequent decision, and the verdict returned is the one of highest
\* reported confidence among the verdicts holding that decision, the
\* earliest in the list when several share that confidence.
C7_BinaryMajority ==
    (VoteDone /\ vote_type = "CHECKBOX") =>
        LET H == HoldersOf(vote_result.verdict.decision)
        IN  /\ \A e \in RubricDecisions : Cardinality(HoldersOf(e)) <= Cardinality(H)
            /\ vote_result.verdict = vote_verdicts[Least(TopConfidence(H))]

\* a vote where two verdicts of the majority decision share the highest
\* confidence and a later verdict holds the other decision
C7_Witness ==
    /\ VoteDone /\ vote_type = "CHECKBOX"
    /\ LET H == HoldersOf(vote_result.verdict.decision)
       IN  /\ Cardinality(TopConfidence(H)) >= 2
           /\ H # VoteIndices
           /\ Cardinality(H) > Cardinality(VoteIndices \ H)
           /\ Least(TopConfidence(H)) # Least(H)

\* C8: for BINARY verdicts, and for CHOICE verdicts without a tie, the
\* confidence is (verdicts holding the winning value / all verdicts) *
\* (representative's confidence / 100); [check(80), check(90), uncheck(70)]
\* gives check, represented by the verdict of confidence 90, confidence 0.6.
C8_Confidence ==
    (VoteDone /\ ~RadioTie) =>
        LET rep == vote_result.verdict
            winners == IF vote_type = "CHECKBOX" THEN HoldersOf(rep.decision)
                       ELSE SelectorsOf(rep.selected_option)
        IN  /\ FracEq(vote_result.confidence,
                      Frac(Cardinality(winners) * rep.confidence,
                           Len(vote_verdicts) * 100))
            /\ (/\ vote_type = "CHECKBOX"
                /\ [i \in VoteIndices |-> <<vote_verdicts[i].decision,
                                            vote_verdicts[i].confidence>>]
                     = <<(<<"check", 80>>), (<<"check", 90>>), (<<"uncheck", 70>>)>>)
               => /\ rep.decision = "check" /\ rep.confidence = 90
                  /\ FracEq(vote_result.confidence, Frac(6, 10))

\* the vote on [check(80), check(90), uncheck(70)] has been taken
C8_Witness ==
    /\ VoteDone /\ vote_type = "CHECKBOX"
    /\ [i \in VoteIndices |-> <<vote_verdicts[i].decision,
                                vote_verdicts[i].confidence>>]
         = <<(<<"check", 80>>), (<<"check", 90>>), (<<"uncheck", 70>>)>>
    /\ FracEq(vote_result.confidence, Frac(3, 5))

\* C9: for CHOICE verdicts whose two most frequent options have equal
\* counts, the vote returns the first verdict of the list that selected the
\* leading option seen first in the list, with confidence exactly 0.5
\* whatever confidences the verdicts report.
C9_ChoiceTie ==
    (VoteDone /\ RadioTie) =>
        LET o == CHOOSE o1 \in Leading :
                   \A o2 \in Leading : Least(SelectorsOf(o1)) <= Least(SelectorsOf(o2))
        IN  /\ vote_result.verdict = vote_verdicts[Least(SelectorsOf(o))]
            /\ vote_result.confidence = Frac(1, 2)

\* a tie whose first verdict selected no leading option, and whose returned
\* verdict reports less confidence than a later verdict of the same option
C9_Witness ==
    /\ VoteDone /\ RadioTie
    /\ vote_verdicts[1].selected_option \notin Leading
    /\ \E i \in SelectorsOf(vote_result.verdict.selected_option) :
         vote_verdicts[i].confidence > vote_result.verdict.confidence

(* ===================== properties of the pipeline ===================== *)
IsPartial(e) == e.event = "partial_result"
IsTerminal(e) == e.event \in {"job_complete", "error"}
Partials == SelectSeq(events, IsPartial)
Delivered(name) == \E k \in 1..Len(events) : events[k].event = name
\* every LLM call of item i was made and failed
AllCallsFailed(i) ==
    /\ tasks[i].state = "finished"
    /\ tasks[i].calls # <<>>
    /\ \A c \in DOMAIN tasks[i].calls : IsException(tasks[i].calls[c])
RECURSIVE Concat(_)
Concat(ss) == IF ss = <<>> THEN <<>> ELSE Head(ss) \o Concat(Tail(ss))

\* C1: the partial results delivered are one per rubric item, each with its
\* own item's decision, in the order of rubric_items whatever the order in
\* which the evaluations of a batch finished; a terminal event is the last
\* event and there is at most one; job_complete comes after all N partial
\* results, and a stream that ended without a pipeline-level error has
\* delivered exactly the N partial results and then job_complete.
C1_OrderedPartials ==
    /\ Len(Partials) <= total_items
    /\ \A k \in 1..Len(Partials) :
         /\ Partials[k].rubric_item_id = rubric_items[k].id
         /\ Partials[k].decision # None
         /\ Partials[k].decision.rubric_item_id = rubric_items[k].id
    /\ \A k \in 1..Len(events) : IsTerminal(events[k]) => k = Len(events)
    /\ Delivered("job_complete") => Len(Partials) = total_items
    /\ (pc = "done" /\ ~Delivered("error")) =>
          /\ Len(events) = total_items + 1
          /\ events[Len(events)].event = "job_complete"

\* a finished stream whose last batch had its evaluations finish in an order
\* other than the order of the items
C1_Witness ==
    /\ pc = "done" /\ Delivered("job_complete")
    /\ \E j, k \in 1..Len(finish_order) :
         j < k /\ finish_order[j] > finish_order[k]

\* C2: once the stream of a started job has ended, a terminal event has
\* been delivered and the job record is 'completed' or 'failed'.
C2_TerminalState ==
    pc \in {"done", "cancelled"} =>
        /\ Delivered("job_complete") \/ Delivered("error")
        /\ get_job(_jobs, JobId).status \in {"completed", "failed"}

C4_RateSafety ==
    pc \notin {"request", "start"} =>
        LET load == _estimate_batch_load(settings, optimal_batch_size)
        IN  /\ load.requests <= settings.max_requests_per_minute
            /\ load.tokens <= settings.max_tokens_per_minute

\* C5: an item whose LLM calls all failed does not abort the job: its
\* partial result, once delivered, carries the fallback decision; no error
\* event follows from failed calls; and the stream goes on to deliver every
\* item's partial result and job_complete.
C5_FailedItemsAbsorbed ==
    /\ \A k \in 1..Len(Partials) :
         AllCallsFailed(k) =>
           Partials[k].decision = _create_fallback_decision(rubric_items[k])
    /\ Delivered("error") => optimal_batch_size = 0
    /\ (pc = "done" /\ optimal_batch_size # 0) =>
          /\ Len(Partials) = total_items
          /\ Delivered("job_complete")

\* a finished stream of several batches in which every call of the first
\* item failed and the items after it were delivered
C5_Witness ==
    /\ pc = "done" /\ Delivered("job_complete")
    /\ Len(batches) >= 2
    /\ AllCallsFailed(1)
    /\ Len(Partials) = total_items /\ total_items >= 2

\* the decision delivered for item k is a fallback decision
IsFallbackOf(d, item, reasoning) ==
    /\ d.confidence = Frac(0, 1)
    /\ d.reasoning = reasoning
    /\ d.verdict.comment = ManualReviewComment
    /\ item.type = "CHECKBOX" => d.verdict.decision = "check"
    /\ item.type = "RADIO" => d.verdict.selected_option = item.options[1]

\* C6 (as amended): the fallback decision has confidence 0.0 and reasoning
\* "All LLM evaluation attempts failed"; for a CHECKBOX item its verdict is
\* check with the manual-review comment, for a RADIO item its selected
\* option is the first declared option key, with the same comment.
C6_FallbackDecision ==
    \A k \in 1..Len(Partials) :
        (AllCallsFailed(k) \/ IsException(tasks[k].result)) =>
            IsFallbackOf(Partials[k].decision, rubric_items[k],
                         "All LLM evaluation attempts failed")

\* C6 as stated: the reasoning is "all evaluation attempts failed"
C6_FallbackAsStated ==
    \A k \in 1..Len(Partials) :
        (AllCallsFailed(k) \/ IsException(tasks[k].result)) =>
            IsFallbackOf(Partials[k].decision, rubric_items[k],
                         "all evaluation attempts failed")

\* fallback decisions were delivered for a CHECKBOX and for a RADIO item
C6_Witness ==
    \E j, k \in 1..Len(Partials) :
        /\ AllCallsFailed(j) /\ AllCallsFailed(k)
        /\ rubric_items[j].type = "CHECKBOX"
        /\ rubric_items[k].type = "RADIO"

(* ================== properties of one item's evaluation =============== *)
Decided == eval_decision # None
EvalResults == [c \in DOMAIN eval_calls |-> eval_calls[c].result]
ValidCalls == {c \in DOMAIN eval_calls :
                 /\ eval_calls[c].result # NoResult
                 /\ ~IsException(eval_calls[c].result)}
DeclaredKeysOf(item) == {item.options[k] : k \in DOMAIN item.options}

\* C11: every decision of an item evaluation, be it the consensus over the
\* valid verdicts, the tie result or the fallback, has a confidence between
\* 0 and 1 inclusive
C11_ConfidenceRange ==
    Decided =>
        /\ eval_decision.confidence.den > 0
        /\ 0 <= eval_decision.confidence.num
        /\ eval_decision.confidence.num <= eval_decision.confidence.den

\* two calls returned agreeing verdicts of confidence 100: the decision has
\* confidence exactly 1
C11_Witness ==
    /\ Decided
    /\ Cardinality(ValidCalls) >= 2
    /\ eval_decision.reasoning = "Voting results"
    /\ FracEq(eval_decision.confidence, Frac(1, 1))

CompleteEvents == SelectSeq(events, LAMBDA e : e.event = "job_complete")

\* C13: the k-th partial_result delivered carries progress k/N, N the number
\* of submitted items; job_complete comes after N of them and carries 1.0
C13_Progress ==
    /\ \A k \in 1..Len(Partials) :
         FracEq(Partials[k].progress, Frac(k, total_items))
    /\ \A k \in 1..Len(CompleteEvents) :
         /\ FracEq(CompleteEvents[k].progress, Frac(1, 1))
         /\ Len(Partials) = total_items

\* a job of several items has been streamed to its end
C13_Witness ==
    /\ total_items >= 2
    /\ Len(Partials) = total_items
    /\ Delivered("job_complete")

(* ===================== properties of the job record =================== *)
FracLeq(a, b) == a.num * b.den <= b.num * a.den
Stored(jobs) == JobId \in DOMAIN jobs

\* C14: the progress stored under a job id never decreases: each value read
\* through get_job is at least the value read before
C14_ProgressMonotone ==
    [][(Stored(_jobs) /\ Stored(_jobs')) =>
          FracLeq(get_job(_jobs, JobId).progress,
                  get_job(_jobs', JobId).progress)]_vars

\* C15: the record's total_items is the number of rubric items of the
\* request, from the record's creation on
C15_TotalItems ==
    Stored(_jobs) => get_job(_jobs, JobId).total_items = Len(rubric_items)

\* the record of a job of several items after partial results and the end of
\* the stream
C15_Witness ==
    /\ Stored(_jobs)
    /\ total_items >= 2
    /\ get_job(_jobs, JobId).completed_items = total_items
    /\ get_job(_jobs, JobId).status = "completed"

Last(seq) == seq[Len(seq)]
Contains(seq, x) == \E k \in 1..Len(seq) : seq[k] = x

\* C16: when an exception escaped request r's pipeline outside the per-item
\* boundary, the stream ends with the job record 'failed' and holding the
\* exception's message, with an error event as the last event delivered, and
\* without a job_complete event
C16_AbortRecorded ==
    [][\A r \in Requests :
         (requests[r].pc = "except" /\ requests'[r].pc # "except") =>
            /\ Stored(_jobs')
            /\ get_job(_jobs', JobId).status = "failed"
            /\ get_job(_jobs', JobId).error = requests[r].error
            /\ requests'[r].delivered # <<>>
            /\ Last(requests'[r].delivered) = "error"
            /\ ~Contains(requests'[r].delivered, "job_complete")]_vars

(* ====================== properties of the retry ======================= *)
\* the errors called transient: connection and timeout errors, HTTP 429, 500,
\* 502, 503 and 504, and the provider's rate-limit, server, timeout and
\* connection errors
TransientError(e) ==
    \/ e.exception \in {"ConnectError", "ReadError", "TimeoutException"}
    \/ /\ e.exception = "HTTPStatusError"
       /\ e.status_code \in {429, 500, 502, 503, 504}
    \/ e.exception \in {"RateLimitError", "InternalServerError",
                        "APITimeoutError", "APIConnectionError"}

\* what a malformed, unparseable or schema-violating response raises
ParseErrors == {Raised("ValueError"), Raised("ValidationError")}

\* attempt k of the call was followed, or is about to be followed, by another
Retried(k) ==
    \/ k < Len(call_log)
    \/ k = Len(call_log) /\ call_result = NoResult

\* C17: a failed attempt is retried exactly when its error is transient and
\* fewer than llm_max_retries attempts have been made; an attempt whose
\* response cannot be parsed or validated is the call's last, and its
\* exception is what the call raises
C17_RetryPolicy ==
    \A k \in 1..Len(call_log) :
        /\ IsException(call_log[k]) =>
             (Retried(k) <=> (TransientError(call_log[k]) /\ k < llm_max_retries))
        /\ call_log[k] \in ParseErrors =>
             (k = Len(call_log) /\ call_result = call_log[k])

\* a call retried after HTTP 503 whose next response violated the schema
C17_Witness ==
    /\ Len(call_log) = 2
    /\ call_log[1] = HTTPStatusError(503)
    /\ call_log[2] = Raised("ValidationError")
    /\ call_result = Raised("ValidationError")

AttemptsMade ==
    Cardinality({<<c, k>> \in (DOMAIN eval_calls) \X (1..(llm_max_retries + 1)) :
                   k <= eval_calls[c].attempts})

\* C18: no call makes more than llm_max_retries attempts, and a call that has
\* made them all has ended, so an item's calls make at most
\* parallel_llm_calls * llm_max_retries attempts; a call whose last attempt
\* failed is one failed call of the item, which still gets its decision
C18_AttemptBound ==
    /\ \A c \in DOMAIN eval_calls :
         /\ eval_calls[c].attempts <= llm_max_retries
         /\ eval_calls[c].attempts = llm_max_retries =>
              eval_calls[c].result # NoResult
    /\ AttemptsMade <= Len(eval_calls) * llm_max_retries
    /\ Decided =>
         /\ \A c \in DOMAIN eval_calls : eval_calls[c].result # NoResult
         /\ eval_decision.rubric_item_id = eval_item.id
         /\ ValidCalls = {} => eval_decision = _create_fallback_decision(eval_item)

\* every call of an item used all its attempts on transient errors, and the
\* item has its decision
C18_Witness ==
    /\ Decided
    /\ Len(eval_calls) >= 2
    /\ \A c \in DOMAIN eval_calls :
         /\ eval_calls[c].attempts = llm_max_retries
         /\ IsException(eval_calls[c].result)
         /\ TransientError(eval_calls[c].result)

(* =================== properties of request validation ================= *)
Answered == route_response # NoResult
Refused ==
    /\ Answered
    /\ route_response.kind = "HTTPException"
    /\ route_response.status_code = 400
Accepted ==
    /\ Answered
    /\ route_response.kind = "EventSourceResponse"
Listed(text, about) ==
    /\ Refused
    /\ \E k \in 1..Len(route_response.detail) :
         route_response.detail[k] = Message(text, about)

PostedItems == route_request.rubric_items
PostedContext == route_request.assignment_context
DuplicatedId(j) == \E i \in 1..(j - 1) : PostedItems[i].id = PostedItems[j].id
TooFewOptions(i) ==
    PostedItems[i].type = "RADIO" /\ Len(PostedItems[i].options) < 2
OptionPairs(i) == {PostedItems[i].options[k] : k \in DOMAIN PostedItems[i].options}

\* C19: a request with a duplicated item id, an empty description, a RADIO
\* item of fewer than two options, an empty option key or label, or an empty
\* course, assignment or submission id is refused with status 400; the detail
\* lists each of these violations, and no job record has been created (the
\* pipeline, which makes the LLM calls, runs only in the returned stream)
C19_Refusal ==
    Answered =>
        /\ \A i \in DOMAIN PostedItems :
             /\ DuplicatedId(i) =>
                  Listed("Duplicate rubric item ID", PostedItems[i].id)
             /\ Blank(PostedItems[i].description) =>
                  Listed("has empty description", PostedItems[i].id)
             /\ TooFewOptions(i) =>
                  \/ Listed("has no options", PostedItems[i].id)
                  \/ Listed("must have at least 2 options", PostedItems[i].id)
             /\ (\E o \in OptionPairs(i) : Blank(o[1])) =>
                  Listed("has empty option key", PostedItems[i].id)
             /\ (\E o \in OptionPairs(i) : Blank(o[2])) =>
                  Listed("has empty option text", PostedItems[i].id)
        /\ Blank(PostedContext.course_id) =>
             Listed("Course ID is required", "context")
        /\ Blank(PostedContext.assignment_id) =>
             Listed("Assignment ID is required", "context")
        /\ Blank(PostedContext.submission_id) =>
             Listed("Submission ID is required", "context")
        /\ Refused => _jobs = <<>>

\* a request with a duplicated id, a one-option RADIO item with an empty
\* label and an empty course id has been refused
C19_Witness ==
    /\ Refused
    /\ Len(PostedItems) = 2
    /\ DuplicatedId(2)
    /\ TooFewOptions(2)
    /\ \E o \in OptionPairs(2) : Blank(o[2])
    /\ Blank(PostedContext.course_id)
    /\ Len(route_response.detail) >= 4

\* the request violates nothing, negative points aside
OtherwiseValid ==
    /\ PostedItems # <<>>
    /\ \A i \in DOMAIN PostedItems :
         /\ ~DuplicatedId(i)
         /\ ~Blank(PostedItems[i].description)
         /\ PostedItems[i].type = "RADIO" =>
              /\ ~TooFewOptions(i)
              /\ \A o \in OptionPairs(i) : ~Blank(o[1]) /\ ~Blank(o[2])
    /\ validate_submission_request(
         SubmissionRequest(PostedContext, route_request.source_files,
                           <<RequestItem("i1", [description |-> "d", points |-> 2,
                                                type |-> "CHECKBOX",
                                                options |-> NoOptions])>>)) = <<>>

\* C20: a rubric item with negative points is valid input: a request that
\* violates nothing else passes validation and its job is created
C20_NegativePoints ==
    (Answered /\ OtherwiseValid /\ \E i \in DOMAIN PostedItems : PostedItems[i].points < 0)
        => (Accepted /\ JobIdOf(route_request) \in DOMAIN _jobs)

(* ====================== properties of the job store =================== *)
\* request r's create_job runs in this step
Creates(r) == requests[r].pc = "unsent" /\ requests'[r].pc = "streaming"

\* C21: create_job on a job id that is already stored leaves the stored
\* record as it was: a second grading request for the same submission does
\* not overwrite or reset the record
C21_CreateKeepsExisting ==
    [][\A r \in Requests : (Creates(r) /\ Stored(_jobs)) => _jobs' = _jobs]_vars

\* update_job takes a step
UpdateSteps == UpdateRunning /\ update_call' # update_call

\* C22: a step of update_job on a job id that is absent never writes the
\* store and never lets the call return normally, whether the id was never
\* stored or was deleted or expired while the call ran: the call fails with
\* the not-found error and creates no record
C22_UpdateAbsent ==
    [][(UpdateSteps /\ update_call.job_id \notin DOMAIN _jobs) =>
          /\ _jobs' = _jobs
          /\ update_call'.pc # "returned"]_vars

\* the age of a stored record at the current clock reading
Age(id) == current_time - born[id]

\* cleanup_old_jobs runs in this step
CleanupSteps ==
    /\ cleanup_call # None
    /\ cleanup_call.pc = "called"
    /\ cleanup_call'.pc = "returned"

\* C23: cleanup_old_jobs(maxAge) deletes exactly the stored records whose age
\* is greater than maxAge, leaves every other record as it was, and returns
\* the number of records it deleted
C23_CleanupExact ==
    [][CleanupSteps =>
          LET old == {id \in DOMAIN _jobs : Age(id) > cleanup_call.max_age_seconds}
          IN  /\ DOMAIN _jobs' = DOMAIN _jobs \ old
              /\ \A id \in DOMAIN _jobs' : _jobs'[id] = _jobs[id]
              /\ cleanup_call'.returned = Cardinality(old)]_vars

(* ======================= properties of the batches ==================== *)
\* the ids of the items of batch b
ItemsOf(b) == {batches[b][k].id : k \in 1..Len(batches[b])}

\* item i's evaluation has started: its caveat search or its LLM calls
Started(i) == tasks[i].state # "unstarted"

\* item i's partial result has been emitted
Emitted(i) ==
    \E k \in 1..Len(events) :
        events[k].event = "partial_result" /\ events[k].rubric_item_id = i

\* C24: batches run one after another: while an item of a batch has started,
\* every evaluation of every earlier batch has finished and its partial
\* result has been emitted, and no item outside the batches built has started
C24_SequentialBatches ==
    /\ \A b \in 1..Len(batches) : \A i \in ItemsOf(b) :
         Started(i) =>
            \A a \in 1..(b - 1) : \A j \in ItemsOf(a) :
                tasks[j].state = "finished" /\ Emitted(j)
    /\ \A i \in 1..total_items :
         Started(i) => \E b \in 1..Len(batches) : i \in ItemsOf(b)

\* an LLM call of an item of the second batch has returned while another
\* item of that batch still runs
C24_Witness ==
    /\ Len(batches) >= 2
    /\ Len(batches[1]) >= 2
    /\ \E i \in ItemsOf(2) :
         /\ tasks[i].state = "running"
         /\ \E c \in DOMAIN tasks[i].calls : tasks[i].calls[c] # NoResult

\* C25: when the request has no more rubric items than the configured
\* batch_size, the pipeline builds one batch, which holds every item, and the
\* stream ends only after that batch
C25_SingleBatch ==
    total_items <= settings.batch_size =>
        /\ Len(batches) <= 1
        /\ \A b \in 1..Len(batches) : batches[b] = rubric_items
        /\ pc = "done" => (Len(batches) = 1 /\ Delivered("job_complete"))

\* a finished job of several items, all in one batch, under rate caps that
\* allow fewer items per batch than the request has
C25_Witness ==
    /\ pc = "done"
    /\ total_items >= 2
    /\ total_items <= settings.batch_size
    /\ _estimate_batch_load(settings, total_items).requests
          > settings.max_requests_per_minute \div BatchesPerMinute
    /\ batches = <<rubric_items>>

(* ================== properties of the job's status ==================== *)
StatusOf(jobs) == get_job(jobs, JobId).status

\* C26: the status stored under a job id only moves from 'processing' to
\* 'completed' or from 'processing' to 'failed'; a 'completed' or 'failed'
\* status never changes again
C26_StatusTransitions ==
    [][(Stored(_jobs) /\ Stored(_jobs')) =>
          \/ StatusOf(_jobs') = StatusOf(_jobs)
          \/ /\ StatusOf(_jobs) = "processing"
             /\ StatusOf(_jobs') \in {"completed", "failed"}]_vars

\* the job_complete events produced by request r's pipeline
CompletesProduced(r) ==
    Cardinality({k \in 1..Len(requests[r].delivered) :
                    requests[r].delivered[k] = "job_complete"})

\* C27: whenever the job record is 'completed', completed_items equals
\* total_items, progress is 1.0, and a pipeline of the job has produced its
\* job_complete event, none more than one
C27_CompletedRecord ==
    (Stored(_jobs) /\ StatusOf(_jobs) = "completed") =>
        /\ get_job(_jobs, JobId).completed_items = get_job(_jobs, JobId).total_items
        /\ FracEq(get_job(_jobs, JobId).progress, Frac(1, 1))
        /\ \E r \in Requests : CompletesProduced(r) = 1
        /\ \A r \in Requests : CompletesProduced(r) <= 1

(* ==================== properties of the fallback ====================== *)
\* the item's decision is the fallback decision
FellBack == Decided /\ eval_decision = _create_fallback_decision(eval_item)

\* the item's LLM calls were made and every one of them failed
EveryCallFailed ==
    /\ eval_calls # <<>>
    /\ \A c \in DOMAIN eval_calls : IsException(eval_calls[c].result)

SuccessfulVerdicts ==
    LET NotExc(r) == ~IsException(r)
    IN  SelectSeq(EvalResults, NotExc)

\* C29: when the provider gave a well-formed response to at least one of the
\* item's calls, the item's decision is the consensus over the verdicts of
\* the calls that succeeded, and not the fallback decision
C29_ConsensusOnResponse ==
    (Decided /\ \E c \in DOMAIN eval_calls : eval_calls[c].wellformed) =>
        /\ SuccessfulVerdicts # <<>>
        /\ eval_decision.verdict =
              _majority_vote(SuccessfulVerdicts, eval_item.type).verdict
        /\ ~FellBack

(* =================== properties of the CHOICE vote ==================== *)
\* C30: for CHOICE verdicts whose two most frequent options differ in count,
\* the vote resolves to the option selected strictly most often, and the
\* verdict returned is the one of highest reported confidence among the
\* verdicts selecting that option, the earliest in the list when several
\* share that confidence
C30_ChoiceMajority ==
    (VoteDone /\ vote_type = "RADIO" /\ ~RadioTie) =>
        LET o == vote_result.verdict.selected_option
            S == SelectorsOf(o)
        IN  /\ \A o2 \in OptionKeys \ {o} :
                 Cardinality(SelectorsOf(o2)) < Cardinality(S)
            /\ vote_result.verdict = vote_verdicts[Least(TopConfidence(S))]

\* a vote whose first verdict selected a losing option, and whose winning
\* option was selected first with a lower confidence and then twice with the
\* highest one
C30_Witness ==
    /\ VoteDone /\ vote_type = "RADIO" /\ ~RadioTie
    /\ LET S == SelectorsOf(vote_result.verdict.selected_option)
       IN  /\ 1 \notin S
           /\ Cardinality(TopConfidence(S)) >= 2
           /\ Least(TopConfidence(S)) # Least(S)
           /\ Cardinality(VoteIndices \ S) >= 2

(* ================ properties of the record's counters ================= *)
\* request r's stream handles a partial_result in this step
HandlesPartial(r) == requests'[r].emitted = requests[r].emitted + 1

\* C31: after a partial_result is handled, the job record's completed_items
\* is the number of partial results its pipeline has produced so far and its
\* progress is completed_items / total_items
C31_RecordCounts ==
    [][\A r \in Requests :
         (HandlesPartial(r) /\ Stored(_jobs')) =>
            LET job == get_job(_jobs', JobId)
            IN  /\ job.completed_items = requests'[r].emitted
                /\ FracEq(job.progress, Frac(job.completed_items, job.total_items))]_vars

(* ================== when a partial result is emitted ================== *)
\* the decisions of item i and of every item before it are available
DecisionsAvailableUpTo(i) == \A j \in 1..i : tasks[j].state = "finished"

\* the stream waits in gather for an item of the batch after item i
WaitsForLaterItem(i) ==
    /\ pc = "gather"
    /\ \E j \in ItemsOf(Len(batches)) : j > i /\ tasks[j].state # "finished"

\* C32: the stream never waits for a later item of the batch while the
\* decisions of an item and of every item before it are available and the
\* item's partial_result is not emitted
C32_EmittedAsSoonAsAvailable ==
    \A i \in 1..total_items :
        (DecisionsAvailableUpTo(i) /\ ~Emitted(i)) => ~WaitsForLaterItem(i)

(* ===================== after the consumer has left ==================== *)
\* C33: once the consumer has disconnected during a batch (the stream's task
\* is cancelled in gather or at a yield), no batch is built and no
\* evaluation or LLM call is started any more
C33_NoBatchAfterDisconnect ==
    [][pc = "cancelled" =>
         /\ batches' = batches
         /\ tasks' = tasks
         /\ pc' = "cancelled"]_vars

\* the consumer has left while items of later batches were still to evaluate
C33_Witness ==
    /\ pc = "cancelled"
    /\ Len(batches) >= 1
    /\ \E i \in 1..total_items : ~Started(i)

(* ======================= the wait between attempts ==================== *)
\* C34: the wait before the n-th retry of a call is the larger of the
\* exponential backoff (capped at its ceiling) and the fixed floor, and the
\* waits of a call do not decrease from one retry to the next
C34_WaitIsMax ==
    /\ \A n \in 1..Len(call_waits) :
         call_waits[n] = Max(wait_exponential(n), wait_fixed(n))
    /\ \A m, n \in 1..Len(call_waits) : m <= n => call_waits[m] <= call_waits[n]

(* ======================== the job id of a request ===================== *)
\* C35: the job id of every request that validation accepts is accepted by
\* validate_job_id_format, so that the job routes do not refuse the id of
\* the job the request created
C35_JobIdAccepted ==
    Accepted => validate_job_id_format(job_id(route_request))

(* ==================== the bounds of the record's count ================ *)
\* C36: the job record's completed_items is between 0 and its total_items,
\* also while two requests for the same job id are being served
C36_CompletedWithinTotal ==
    Stored(_jobs) =>
        LET job == get_job(_jobs, JobId)
        IN  0 <= job.completed_items /\ job.completed_items <= job.total_items

(* ===================== the batch size is positive ===================== *)
\* C37: once the stream has computed it, the batch size is at least 1, and
\* the stream does not end in an error before any batch was built
C37_PositiveBatchSize ==
    /\ pc \notin {"idle", "request", "start"} => optimal_batch_size >= 1
    /\ Delivered("error") => Len(batches) >= 1

(* ================ the record is written before the event ============== *)
\* request r's stream delivers the event named name in this step
Delivers(r, name) ==
    /\ Len(requests'[r].delivered) = Len(requests[r].delivered) + 1
    /\ Last(requests'[r].delivered) = name

\* C38: when the k-th partial_result of a stream is delivered and the job's
\* record exists, the record's completed_items is at least k; when
\* job_complete is delivered, the record's status is 'completed'
C38_RecordedBeforeDelivered ==
    [][\A r \in Requests :
         Stored(_jobs') =>
            /\ Delivers(r, "partial_result") =>
                 get_job(_jobs', JobId).completed_items >= requests'[r].emitted
            /\ Delivers(r, "job_complete") =>
                 get_job(_jobs', JobId).status = "completed"]_vars

(* ================== the provider is initialized once ================== *)
\* the calls that have started and not ended
Running == {c \in DOMAIN service_calls : service_calls[c].pc \in {"calling", "waiting"}}

\* C39: however the evaluate_rubric_item calls on a fresh LLMService
\* interleave, the provider's initialize() has run at most once
C39_InitializedOnce == initialize_calls <= 1

\* several calls are under way at once on the service, one of them at a
\* later attempt, and the provider has been initialized
C39_Witness ==
    /\ initialize_calls = 1
    /\ Cardinality(Running) >= 2
    /\ \E c \in Running : service_calls[c].attempt_number >= 2

====
